---- MODULE Spec2Model ----
(***************************************************************************)
(* Model of the show-to-week organizer (src/src/utils/weeklyShows.js) and  *)
(* of the artist matcher (src/unnamed/part_004, shared/normalize.js).      *)
(*                                                                         *)
(* JavaScript values are tagged records, objects live in a heap (a         *)
(* sequence of objects addressed by position), and every function that     *)
(* allocates or writes an object takes the heap and returns the new heap   *)
(* together with its return value, so that aliasing and in-place mutation  *)
(* are visible.  Strings are sequences of one-character strings.  Dates    *)
(* are kept in local calendar time as a day number (days since 1970-01-01) *)
(* and the milliseconds within that day; the local zone has a fixed offset *)
(* (no daylight-saving jumps).                                             *)
(***************************************************************************)
EXTENDS Integers, Sequences, FiniteSets, Bags, TLC

VARIABLES heap, heap0, refDate, showsIn, pc, ret, probe

vars == <<heap, heap0, refDate, showsIn, pc, ret, probe>>

(***************************************************************************)
(* JavaScript values                                                       *)
(***************************************************************************)
Undefined == [t |-> "undefined"]
Null == [t |-> "null"]
Str(s) == [t |-> "string", s |-> s]
Num(n) == [t |-> "number", n |-> n]
Ref(a) == [t |-> "object", ref |-> a]

IsStr(v) == v.t = "string"
IsRef(v) == v.t = "object"

\* JavaScript truthiness of a value: !v is ~Truthy(v).
Truthy(v) ==
  CASE v.t = "undefined" -> FALSE
    [] v.t = "null" -> FALSE
    [] v.t = "string" -> v.s /= <<>>
    [] v.t = "number" -> v.n /= 0
    [] OTHER -> TRUE

(***************************************************************************)
(* Calendar arithmetic of the Date built-in (proleptic Gregorian)          *)
(***************************************************************************)
MsPerDay == 86400000

\* The operators below pass intermediate results as parameters, one step
\* per operator, in the order of the ECMAScript definitions.

daysFromEra(era, yoe, doy) ==
  era * 146097 + yoe * 365 + yoe \div 4 - yoe \div 100 + doy - 719468
daysFromShifted(yy, mp, d) ==
  daysFromEra(yy \div 400, yy % 400, (153 * mp + 2) \div 5 + d - 1)
\* Day number of the civil date y-m-d, m in 1..12 (ECMAScript MakeDay);
\* years are counted from March so that the leap day comes last.
DaysFromCivil(y, m, d) ==
  daysFromShifted(IF m <= 2 THEN y - 1 ELSE y, IF m > 2 THEN m - 3 ELSE m + 9, d)

civilRecord(y, m, d) ==
  [year |-> IF m <= 2 THEN y + 1 ELSE y, month |-> m, day |-> d]
civilFromMp(y, doy, mp) ==
  civilRecord(y, IF mp < 10 THEN mp + 3 ELSE mp - 9, doy - (153 * mp + 2) \div 5 + 1)
civilFromDoy(y, doy) == civilFromMp(y, doy, (5 * doy + 2) \div 153)
civilFromYoe(era, doe, yoe) ==
  civilFromDoy(yoe + era * 400, doe - (365 * yoe + yoe \div 4 - yoe \div 100))
civilFromDoe(era, doe) ==
  civilFromYoe(era, doe,
               (doe - doe \div 1460 + doe \div 36524 - doe \div 146096) \div 365)
\* Civil date of a day number (ECMAScript YearFromTime, MonthFromTime, DateFromTime).
CivilFromDays(z) ==
  civilFromDoe((z + 719468) \div 146097, (z + 719468) % 146097)

\* A Date object of the heap.
DateObj(day, ms) == [kind |-> "date", day |-> day, ms |-> ms]

\* Date.prototype.getDay: 0 = Sunday .. 6 = Saturday (1970-01-01 was a Thursday).
getDay(dt) == (dt.day + 4) % 7
\* Date.prototype.getDate: day of the month, 1..31.
getDate(dt) == CivilFromDays(dt.day).day
\* Date.prototype.getMonth: 0..11.
getMonth(dt) == CivilFromDays(dt.day).month - 1
\* Date.prototype.getFullYear.
getFullYear(dt) == CivilFromDays(dt.day).year

setDateIn(c, n, ms) == DateObj(DaysFromCivil(c.year, c.month, 1) + n - 1, ms)
\* Date.prototype.setDate(n): day n of the date's month, rolling over into
\* the neighbouring months when n is outside the month; the time is kept.
setDate(dt, n) == setDateIn(CivilFromDays(dt.day), n, dt.ms)

\* Date.prototype.setHours(h, m, s, ms) with in-range arguments.
setHours(dt, h, m, s, ms) ==
  DateObj(dt.day, ((h * 60 + m) * 60 + s) * 1000 + ms)

(***************************************************************************)
(* Strings: sequences of one-character strings                             *)
(***************************************************************************)
DigitChars == <<"0", "1", "2", "3", "4", "5", "6", "7", "8", "9">>
IsDigit(c) == c \in {"0", "1", "2", "3", "4", "5", "6", "7", "8", "9"}
DigitVal(c) == CHOOSE i \in 0..9 : DigitChars[i + 1] = c
\* White space as matched by \s and skipped by parseInt (the characters tried).
IsSpace(c) == c \in {" ", "\t", "\n"}

RECURSIVE natToStr(_)
natToStr(n) ==
  IF n < 10 THEN <<DigitChars[n + 1]>>
  ELSE Append(natToStr(n \div 10), DigitChars[(n % 10) + 1])
\* String(n) for an integer n.
IntToStr(n) == IF n < 0 THEN <<"-">> \o natToStr(0 - n) ELSE natToStr(n)

\* String.prototype.padStart(2, '0') of a non-empty string.
padStart2(s) == IF Len(s) < 2 THEN <<"0">> \o s ELSE s

RECURSIVE skipSpace(_)
skipSpace(s) == IF s /= <<>> /\ IsSpace(Head(s)) THEN skipSpace(Tail(s)) ELSE s

\* Result of a numeric conversion: ok = FALSE is NaN.
NaN == [ok |-> FALSE, n |-> 0]
isNaN(x) == ~x.ok

RECURSIVE parseDigits(_, _, _)
parseDigits(s, acc, seen) ==
  IF s /= <<>> /\ IsDigit(Head(s))
  THEN parseDigits(Tail(s), acc * 10 + DigitVal(Head(s)), TRUE)
  ELSE [ok |-> seen, n |-> IF seen THEN acc ELSE 0]
negate(r) == [ok |-> r.ok, n |-> 0 - r.n]
parseIntSigned(s) ==
  IF s /= <<>> /\ Head(s) = "-" THEN negate(parseDigits(Tail(s), 0, FALSE))
  ELSE IF s /= <<>> /\ Head(s) = "+" THEN parseDigits(Tail(s), 0, FALSE)
  ELSE parseDigits(s, 0, FALSE)
\* parseInt(s, 10): leading white space, an optional sign, then the longest
\* run of digits; whatever follows the digits is ignored; NaN without a digit.
parseInt(s) == parseIntSigned(skipSpace(s))

RECURSIVE splitFrom(_, _, _, _)
splitFrom(s, sep, cur, parts) ==
  IF s = <<>> THEN Append(parts, cur)
  ELSE IF Head(s) = sep THEN splitFrom(Tail(s), sep, <<>>, Append(parts, cur))
  ELSE splitFrom(Tail(s), sep, Append(cur, Head(s)), parts)
\* String.prototype.split(sep) for a one-character separator.
split(s, sep) == splitFrom(s, sep, <<>>, <<>>)

(***************************************************************************)
(* parseShowDate, parseShowTime, toISODateString                           *)
(***************************************************************************)
\* The Date constructor maps the years 0..99 to 1900..1999.
makeFullYear(year) == IF year >= 0 /\ year <= 99 THEN 1900 + year ELSE year
\* new Date(year, monthIndex, day, 0, 0, 0, 0): month and day roll over.
newDateYMD(year, monthIndex, day) ==
  DateObj(DaysFromCivil(makeFullYear(year) + monthIndex \div 12,
                        (monthIndex % 12) + 1, 1) + day - 1, 0)

\* The null returned instead of a Date.
NullDate == [kind |-> "null"]

\* Variant without the roll-over validation.
validateDate_Accept(date, month, day) == date
\* if (date.getMonth() !== month - 1 || date.getDate() !== day) return null;
validateDate(date, month, day) ==
  IF getMonth(date) /= month - 1 \/ getDate(date) /= day THEN NullDate ELSE date
parseDateNums(month, day, year) ==
  IF isNaN(month) \/ isNaN(day) \/ isNaN(year) THEN NullDate
  ELSE validateDate(newDateYMD(year.n, month.n - 1, day.n), month.n, day.n)
parseDateParts(parts) ==
  IF Len(parts) /= 3 THEN NullDate
  ELSE parseDateNums(parseInt(parts[1]), parseInt(parts[2]), parseInt(parts[3]))
\* parseShowDate(dateStr): the contents of the new Date it returns, or NullDate.
parseShowDate(dateStr) ==
  IF ~Truthy(dateStr) \/ ~IsStr(dateStr) THEN NullDate
  ELSE parseDateParts(split(dateStr.s, "/"))

NoMatch == [ok |-> FALSE]
\* match[3].toUpperCase() for a matched meridiem.
periodUpper(p) == IF p[1] \in {"A", "a"} THEN "AM" ELSE "PM"
\* Variant without the $ anchor: text may follow the meridiem.
matchTimePeriod_Unanchored(hh, mm, p) ==
  IF Len(p) >= 2 /\ p[1] \in {"A", "a", "P", "p"} /\ p[2] \in {"M", "m"}
  THEN [ok |-> TRUE, h |-> hh, m |-> mm, period |-> periodUpper(p)]
  ELSE NoMatch
matchTimePeriod(hh, mm, p) ==
  IF Len(p) = 2 /\ p[1] \in {"A", "a", "P", "p"} /\ p[2] \in {"M", "m"}
  THEN [ok |-> TRUE, h |-> hh, m |-> mm, period |-> periodUpper(p)]
  ELSE NoMatch
matchTimeMin(hh, rest) ==
  IF Len(rest) >= 2 /\ IsDigit(rest[1]) /\ IsDigit(rest[2])
  THEN matchTimePeriod(hh, SubSeq(rest, 1, 2), skipSpace(SubSeq(rest, 3, Len(rest))))
  ELSE NoMatch
\* timeStr.match(/^(\d{1,2}):(\d{2})\s*(AM|PM)$/i)
matchTime(s) ==
  IF Len(s) >= 3 /\ IsDigit(s[1]) /\ IsDigit(s[2]) /\ s[3] = ":"
  THEN matchTimeMin(SubSeq(s, 1, 2), SubSeq(s, 4, Len(s)))
  ELSE IF Len(s) >= 2 /\ IsDigit(s[1]) /\ s[2] = ":"
  THEN matchTimeMin(SubSeq(s, 1, 1), SubSeq(s, 3, Len(s)))
  ELSE NoMatch
\* Variant that adds 12 to every PM hour, noon included.
to24_NoonAdds(hours, period) ==
  IF period = "AM" /\ hours = 12 THEN 0
  ELSE IF period = "PM" THEN hours + 12
  ELSE hours
\* Convert 12-hour to 24-hour.
to24(hours, period) ==
  IF period = "AM" /\ hours = 12 THEN 0
  ELSE IF period = "PM" /\ hours /= 12 THEN hours + 12
  ELSE hours
minutesOf(m) ==
  IF ~m.ok THEN 0 ELSE to24(parseInt(m.h).n, m.period) * 60 + parseInt(m.m).n
\* parseShowTime(timeStr): minutes since midnight, 0 if unparseable.
parseShowTime(timeStr) ==
  IF ~Truthy(timeStr) \/ ~IsStr(timeStr) THEN 0 ELSE minutesOf(matchTime(timeStr.s))

isoOf(c) ==
  IntToStr(c.year) \o <<"-">> \o padStart2(IntToStr(c.month)) \o <<"-">>
    \o padStart2(IntToStr(c.day))
\* toISODateString(date): "YYYY-MM-DD" from the local calendar fields.
toISODateString(date) == isoOf(CivilFromDays(date.day))

fmtUSOf(c) ==
  IntToStr(c.month) \o <<"/">> \o IntToStr(c.day) \o <<"/">> \o IntToStr(c.year)
\* dt.toLocaleDateString('en-US') of the scraper: "M/D/YYYY".
FmtUS(day) == fmtUSOf(CivilFromDays(day))

(***************************************************************************)
(* The heap                                                                *)
(***************************************************************************)
\* Address of the next object allocated in heap h.
NewAddr(h) == Len(h) + 1
\* h with a new object at NewAddr(h).
Alloc(h, obj) == Append(h, obj)
\* h with the object at address a replaced (an in-place write).
Store(h, a, obj) == [h EXCEPT ![a] = obj]

(***************************************************************************)
(* getWeekStart / getWeekEnd                                               *)
(***************************************************************************)
\* const d = new Date(date);
getWeekStartCopy(h, date) == [h |-> Alloc(h, h[date]), r |-> NewAddr(h)]

\* Variant that sends a Sunday to the following Monday.
daysFromMonday_SundayNext(dayOfWeek) == dayOfWeek - 1
\* const daysFromMonday = dayOfWeek === 0 ? 6 : dayOfWeek - 1;
daysFromMonday(dayOfWeek) == IF dayOfWeek = 0 THEN 6 ELSE dayOfWeek - 1

\* Variant that keeps the time of day of the reference date.
weekStartTime_Keep(dt) == dt
\* d.setHours(0, 0, 0, 0);
weekStartTime(dt) == setHours(dt, 0, 0, 0, 0)

\* d.setDate(d.getDate() - daysFromMonday); d.setHours(0, 0, 0, 0);
\* both written in place to the object at d.
getWeekStartSet(h, d) ==
  Store(h, d, weekStartTime(setDate(h[d], getDate(h[d]) - daysFromMonday(getDay(h[d])))))
getWeekStartAt(c) == [h |-> getWeekStartSet(c.h, c.r), r |-> c.r]
\* getWeekStart(date): a new Date, the Monday 00:00:00.000 of date's week.
getWeekStart(h, date) == getWeekStartAt(getWeekStartCopy(h, date))

\* Variant of the Sunday computation that adds 6 to the day of the month
\* without rolling over the month.
sundayOf_NoRollover(monday, sunday) ==
  LET c == CivilFromDays(sunday.day)
      n == getDate(monday) + 6
      last == DaysFromCivil(IF c.month = 12 THEN c.year + 1 ELSE c.year,
                            IF c.month = 12 THEN 1 ELSE c.month + 1, 1)
              - DaysFromCivil(c.year, c.month, 1)
  IN DateObj(DaysFromCivil(c.year, c.month, IF n > last THEN last ELSE n), sunday.ms)
\* sunday.setDate(monday.getDate() + 6);
sundayOf(monday, sunday) == setDate(sunday, getDate(monday) + 6)

\* sunday.setDate(...); sunday.setHours(23, 59, 59, 999); return sunday;
getWeekEndSet(h, monday, sunday) ==
  [h |-> Store(h, sunday, setHours(sundayOf(h[monday], h[sunday]), 23, 59, 59, 999)),
   r |-> sunday]
\* const sunday = new Date(monday);
getWeekEndFrom(ws) == getWeekEndSet(Alloc(ws.h, ws.h[ws.r]), ws.r, NewAddr(ws.h))
\* getWeekEnd(date): a new Date, the Sunday 23:59:59.999 of date's week.
getWeekEnd(h, date) == getWeekEndFrom(getWeekStart(h, date))

\* const weekStart = getWeekStart(refDate); const weekEnd = getWeekEnd(refDate);
weekWindow(ws, we) == [h |-> we.h, start |-> ws.r, end |-> we.r]
windowAfterStart(ws, date) == weekWindow(ws, getWeekEnd(ws.h, date))
windowOf(h, date) == windowAfterStart(getWeekStart(h, date), date)

(***************************************************************************)
(* organizeShowsByWeek                                                     *)
(***************************************************************************)
DAY_LABELS == <<"Mon", "Tue", "Wed", "Thu", "Fri", "Sat", "Sun">>

\* A show object and an array object of the heap.
ShowObj(artists, venue, date, time) ==
  [kind |-> "show", artists |-> artists, venue |-> venue, date |-> date, time |-> time]
ArrayObj(elems) == [kind |-> "array", elems |-> elems]

\* show.date / show.time for a value that is neither null nor undefined:
\* the field of a show object, undefined for anything else.
getDateProp(h, v) ==
  IF IsRef(v) /\ h[v.ref].kind = "show" THEN h[v.ref].date ELSE Undefined
getTimeProp(h, v) ==
  IF IsRef(v) /\ h[v.ref].kind = "show" THEN h[v.ref].time ELSE Undefined

\* const dayDate = new Date(weekStart); dayDate.setDate(weekStart.getDate() + index);
dayDate(ws, index) == setDate(ws, getDate(ws) + index)

\* const days = DAY_LABELS.map((label, index) => ({label, date, shows: []}));
buildDays(h, weekStart) ==
  [n \in 1..Len(DAY_LABELS) |->
     [label |-> DAY_LABELS[n],
      date |-> toISODateString(dayDate(h[weekStart], n - 1)),
      shows |-> <<>>]]

\* daysByDate.get(isoDate): the position of the day stored under that key
\* (a later entry of a Map replaces an earlier one), 0 for undefined.
lookupDay(days, isoDate) ==
  IF \E n \in DOMAIN days : days[n].date = isoDate
  THEN CHOOSE n \in DOMAIN days :
         /\ days[n].date = isoDate
         /\ \A k \in DOMAIN days : days[k].date = isoDate => k <= n
  ELSE 0

\* { ...show }: a new object with the same field values (a shallow copy).
cloneShow(h, v) == Alloc(h, h[v.ref])
\* day.shows.push(ref)
pushShow(days, n, ref) == [days EXCEPT ![n].shows = Append(@, ref)]

RECURSIVE assignShows(_, _, _, _)
RECURSIVE assignOne(_, _, _, _, _)
RECURSIVE assignTo(_, _, _, _, _)
\* if (day) day.shows.push({ ...show });
assignTo(h, days, elems, i, n) ==
  IF n = 0 THEN assignShows(h, days, elems, i + 1)
  ELSE assignShows(cloneShow(h, elems[i]), pushShow(days, n, Ref(NewAddr(h))),
                   elems, i + 1)
\* Variant that files a show under its weekday, whatever its week.
assignOne_ByWeekday(h, days, elems, i, showDate) ==
  IF showDate.kind = "null" THEN assignShows(h, days, elems, i + 1)
  ELSE assignTo(h, days, elems, i, ((getDay(showDate) + 6) % 7) + 1)
\* if (!showDate) continue; const day = daysByDate.get(toISODateString(showDate));
assignOne(h, days, elems, i, showDate) ==
  IF showDate.kind = "null" THEN assignShows(h, days, elems, i + 1)
  ELSE assignTo(h, days, elems, i, lookupDay(days, toISODateString(showDate)))
\* for (const show of shows) { const showDate = parseShowDate(show.date); ... }
\* Reading .date of null or undefined throws a TypeError.
assignShows(h, days, elems, i) ==
  IF i > Len(elems) THEN [k |-> "ok", h |-> h, days |-> days]
  ELSE IF elems[i].t \in {"null", "undefined"}
  THEN [k |-> "throw", h |-> h, error |-> "TypeError"]
  ELSE assignOne(h, days, elems, i, parseShowDate(getDateProp(h, elems[i])))

\* (a, b) => parseShowTime(a.time) - parseShowTime(b.time)
compareTime(h, a, b) ==
  parseShowTime(getTimeProp(h, a)) - parseShowTime(getTimeProp(h, b))

RECURSIVE insertByTime_Unstable(_, _, _)
\* Variant that puts an element before the elements it compares equal to.
insertByTime_Unstable(h, sorted, x) ==
  IF sorted = <<>> THEN <<x>>
  ELSE IF compareTime(h, sorted[Len(sorted)], x) < 0 THEN Append(sorted, x)
  ELSE Append(insertByTime_Unstable(h, SubSeq(sorted, 1, Len(sorted) - 1), x),
              sorted[Len(sorted)])
RECURSIVE insertByTime(_, _, _)
\* Array.prototype.sort is stable: an element goes after every element that
\* does not compare greater than it.
insertByTime(h, sorted, x) ==
  IF sorted = <<>> THEN <<x>>
  ELSE IF compareTime(h, sorted[Len(sorted)], x) <= 0 THEN Append(sorted, x)
  ELSE Append(insertByTime(h, SubSeq(sorted, 1, Len(sorted) - 1), x),
              sorted[Len(sorted)])
RECURSIVE sortByTime(_, _, _)
\* day.shows.sort(compare), as the sort of the first n elements.
sortByTime(h, s, n) ==
  IF n = 0 THEN <<>> ELSE insertByTime(h, sortByTime(h, s, n - 1), s[n])
\* for (const day of days) day.shows.sort(...)
sortDays(h, days) ==
  [n \in DOMAIN days |->
     [label |-> days[n].label, date |-> days[n].date,
      shows |-> sortByTime(h, days[n].shows, Len(days[n].shows))]]

\* return { weekStartDate, weekEndDate, days }, or the exception thrown.
organizeResult(w, a) ==
  IF a.k = "throw" THEN a
  ELSE [k |-> "schedule", h |-> a.h, weekStartDate |-> w.start,
        weekEndDate |-> w.end, days |-> sortDays(a.h, a.days)]
organizeIn(w, shows) ==
  organizeResult(w, assignShows(w.h, buildDays(w.h, w.start), w.h[shows].elems, 1))
\* Variant that sorts the caller's array by time before filing the shows.
organizeShowsByWeek_SortsInput(h, shows, referenceDate) ==
  organizeIn(windowOf(Alloc(Store(h, shows,
                                  ArrayObj(sortByTime(h, h[shows].elems,
                                                      Len(h[shows].elems)))),
                            h[referenceDate]),
                      NewAddr(h)),
             shows)
\* organizeShowsByWeek(shows, referenceDate); refDate = new Date(referenceDate)
\* is the object allocated first.
organizeShowsByWeek(h, shows, referenceDate) ==
  organizeIn(windowOf(Alloc(h, h[referenceDate]), NewAddr(h)), shows)

(***************************************************************************)
(* normalizeArtistName, createArtistNameSet, findMatchingShows             *)
(***************************************************************************)
UpperChars == <<"A", "B", "C", "D", "E", "F", "G", "H", "I", "J", "K", "L", "M",
                "N", "O", "P", "Q", "R", "S", "T", "U", "V", "W", "X", "Y", "Z">>
LowerChars == <<"a", "b", "c", "d", "e", "f", "g", "h", "i", "j", "k", "l", "m",
                "n", "o", "p", "q", "r", "s", "t", "u", "v", "w", "x", "y", "z">>
lowerChar(c) ==
  IF \E i \in DOMAIN UpperChars : UpperChars[i] = c
  THEN LowerChars[CHOOSE i \in DOMAIN UpperChars : UpperChars[i] = c]
  ELSE c
\* String.prototype.toLowerCase
toLowerCase(s) == [i \in DOMAIN s |-> lowerChar(s[i])]

RECURSIVE trimEnd(_)
trimEnd(s) ==
  IF s /= <<>> /\ IsSpace(s[Len(s)]) THEN trimEnd(SubSeq(s, 1, Len(s) - 1)) ELSE s
\* String.prototype.trim
trim(s) == trimEnd(skipSpace(s))

RECURSIVE collapseSpaces(_)
\* .replace(/\s+/g, ' ')
collapseSpaces(s) ==
  IF s = <<>> THEN <<>>
  ELSE IF IsSpace(Head(s)) THEN <<" ">> \o collapseSpaces(skipSpace(s))
  ELSE <<Head(s)>> \o collapseSpaces(Tail(s))

\* .replace(/^the\s+/i, '')
stripThe(s) ==
  IF Len(s) >= 4 /\ lowerChar(s[1]) = "t" /\ lowerChar(s[2]) = "h"
     /\ lowerChar(s[3]) = "e" /\ IsSpace(s[4])
  THEN skipSpace(SubSeq(s, 4, Len(s)))
  ELSE s

\* Whether r, the text after a run of white space, continues a match of \s+&\s+.
ampFollows(r) == Len(r) >= 2 /\ r[1] = "&" /\ IsSpace(r[2])
RECURSIVE ampToAnd(_)
\* .replace(/\s+&\s+/g, ' and '): matches are found left to right and do not overlap.
ampToAnd(s) ==
  IF s = <<>> THEN <<>>
  ELSE IF IsSpace(Head(s)) /\ ampFollows(skipSpace(s))
  THEN <<" ", "a", "n", "d", " ">> \o ampToAnd(skipSpace(Tail(skipSpace(s))))
  ELSE <<Head(s)>> \o ampToAnd(Tail(s))

\* .replace(/['']/g, "'"): both characters of the class are the straight apostrophe.
normalizeApostrophes(s) == [i \in DOMAIN s |-> IF s[i] \in {"'", "'"} THEN "'" ELSE s[i]]

\* normalizeArtistName(name)
normalizeArtistName(name) ==
  IF ~IsStr(name) THEN <<>>
  ELSE trim(normalizeApostrophes(ampToAnd(stripThe(collapseSpaces(trim(toLowerCase(name.s)))))))

\* artistNamesMatch(a, b)
artistNamesMatch(a, b) == normalizeArtistName(a) = normalizeArtistName(b)

\* An artist record {name: ...}.
ArtistRec(name) == [t |-> "artist", name |-> name]
\* Variant that only asks for a name property: artist && 'name' in artist.
hasName_AnyName(artist) == artist.t = "artist" /\ artist.name.t /= "undefined"
\* artist && artist.name
hasName(artist) == artist.t = "artist" /\ Truthy(artist.name)
\* createArtistNameSet(artists): the Set of normalized names.
createArtistNameSet(artists) ==
  {normalizeArtistName(artists[i].name) : i \in {k \in DOMAIN artists : hasName(artists[k])}}

\* Array.isArray(show.artists) for a truthy show.
hasArtistsArray(h, show) ==
  /\ IsRef(show)
  /\ h[show.ref].kind = "show"
  /\ IsRef(h[show.ref].artists)
  /\ h[h[show.ref].artists.ref].kind = "array"
\* Variant with every in place of some.
someArtistIn_Every(userArtistNames, artists) ==
  \A i \in DOMAIN artists : normalizeArtistName(artists[i]) \in userArtistNames
\* show.artists.some(artist => userArtistNames.has(normalizeArtistName(artist)))
someArtistIn(userArtistNames, artists) ==
  \E i \in DOMAIN artists : normalizeArtistName(artists[i]) \in userArtistNames
\* The filter callback of findMatchingShows.
showMatches(h, userArtistNames, show) ==
  /\ Truthy(show)
  /\ hasArtistsArray(h, show)
  /\ someArtistIn(userArtistNames, h[h[show.ref].artists.ref].elems)

RECURSIVE filterMatches(_, _, _, _)
\* shows.filter(...): a new sequence of the elements kept, in input order.
filterMatches(h, userArtistNames, elems, i) ==
  IF i > Len(elems) THEN <<>>
  ELSE IF showMatches(h, userArtistNames, elems[i])
  THEN <<elems[i]>> \o filterMatches(h, userArtistNames, elems, i + 1)
  ELSE filterMatches(h, userArtistNames, elems, i + 1)

\* A time value: ok = FALSE is the Invalid Date (NaN).
InvalidDate == [ok |-> FALSE, day |-> 0, ms |-> 0]
TimeOf(date) == [ok |-> TRUE, day |-> date.day, ms |-> date.ms]
allDigits(s) == s /= <<>> /\ \A i \in DOMAIN s : IsDigit(s[i])
\* Two-digit years of a non-ISO date string: 0..49 are 2000.., 50..99 are 1950...
legacyYear(y) == IF y < 50 THEN 2000 + y ELSE IF y < 100 THEN 1900 + y ELSE y
legacyFields(month, day, year) ==
  IF month < 1 \/ month > 12 \/ day < 1 \/ day > 31 THEN InvalidDate
  ELSE [ok |-> TRUE, day |-> DaysFromCivil(legacyYear(year), month, 1) + day - 1, ms |-> 0]
\* Three numbers are month, day, year unless the first cannot be a day
\* (it is outside 1..31): then they are year, month, day.
legacyDate(c0, c1, c2) ==
  IF c0 >= 1 /\ c0 <= 31 THEN legacyFields(c0, c1, c2) ELSE legacyFields(c1, c2, c0)
legacyParts(parts) ==
  IF Len(parts) = 3 /\ \A i \in DOMAIN parts : allDigits(parts[i])
  THEN legacyDate(parseInt(parts[1]).n, parseInt(parts[2]).n, parseInt(parts[3]).n)
  ELSE InvalidDate
\* new Date(value) for a show's date field, as the engine that runs the
\* module (Node's V8) parses the values shows carry here: a string of three
\* digit runs separated by slashes (what the scraper's toLocaleDateString
\* writes) is a date at local midnight, the day rolling over past the
\* month's end; a string without a digit, or undefined, is the Invalid Date;
\* null is time 0 and a number is that time.
newDateOf(v) ==
  CASE v.t = "string" -> legacyParts(split(v.s, "/"))
    [] v.t = "null" -> [ok |-> TRUE, day |-> 0, ms |-> 0]
    [] v.t = "number" -> [ok |-> TRUE, day |-> v.n \div MsPerDay, ms |-> v.n % MsPerDay]
    [] OTHER -> InvalidDate
\* Variant with the operands exchanged: the sign of tb - ta.
signOfDifference_Descending(ta, tb) ==
  IF ~ta.ok \/ ~tb.ok THEN 0
  ELSE IF ta.day < tb.day \/ (ta.day = tb.day /\ ta.ms < tb.ms) THEN 1
  ELSE IF ta = tb THEN 0
  ELSE 0 - 1
\* The sign of ta - tb; NaN (either date invalid) counts as 0 in a sort.
signOfDifference(ta, tb) ==
  IF ~ta.ok \/ ~tb.ok THEN 0
  ELSE IF ta.day < tb.day \/ (ta.day = tb.day /\ ta.ms < tb.ms) THEN 0 - 1
  ELSE IF ta = tb THEN 0
  ELSE 1
\* (a, b) => new Date(a.date) - new Date(b.date)
compareDate(h, a, b) ==
  signOfDifference(newDateOf(getDateProp(h, a)), newDateOf(getDateProp(h, b)))

RECURSIVE reverseSeq(_)
reverseSeq(s) == IF s = <<>> THEN <<>> ELSE Append(reverseSeq(Tail(s)), Head(s))
RECURSIVE runEnd(_, _, _, _)
\* Length of the run that starts the array: idx is the next position tested.
runEnd(h, a, idx, descending) ==
  IF idx > Len(a) THEN idx - 1
  ELSE IF descending /\ compareDate(h, a[idx], a[idx - 1]) >= 0 THEN idx - 1
  ELSE IF ~descending /\ compareDate(h, a[idx], a[idx - 1]) < 0 THEN idx - 1
  ELSE runEnd(h, a, idx + 1, descending)
\* A strictly descending first run is reversed.
makeRun(a, n, descending) ==
  IF descending THEN reverseSeq(SubSeq(a, 1, n)) \o SubSeq(a, n + 1, Len(a)) ELSE a
countRun(h, a, descending) ==
  [run |-> runEnd(h, a, 3, descending), desc |-> descending]
RECURSIVE binarySearch(_, _, _, _, _)
\* Number of elements of a[1..right] that stay in front of pivot.
binarySearch(h, a, pivot, left, right) ==
  IF left >= right THEN left
  ELSE IF compareDate(h, pivot, a[left + (right - left) \div 2 + 1]) < 0
  THEN binarySearch(h, a, pivot, left, left + (right - left) \div 2)
  ELSE binarySearch(h, a, pivot, left + (right - left) \div 2 + 1, right)
insertAt(a, start, left) ==
  SubSeq(a, 1, left) \o <<a[start]>> \o SubSeq(a, left + 1, start - 1)
    \o SubSeq(a, start + 1, Len(a))
RECURSIVE binaryInsertionSort(_, _, _)
\* The elements from position start on are inserted into the sorted prefix.
binaryInsertionSort(h, a, start) ==
  IF start > Len(a) THEN a
  ELSE binaryInsertionSort(h, insertAt(a, start, binarySearch(h, a, a[start], 0, start - 1)),
                           start + 1)
sortFromRun(h, a, r) == binaryInsertionSort(h, makeRun(a, r.run, r.desc), r.run + 1)
\* matches.sort(compare) for an array shorter than 64 elements: the engine
\* finds the run that starts the array and inserts the rest by binary search.
sortByDate(h, a) ==
  IF Len(a) < 2 THEN a
  ELSE sortFromRun(h, a, countRun(h, a, compareDate(h, a[2], a[1]) < 0))

\* findMatchingShows(userArtistNames, shows): the heap with the new array
\* matches, filtered and then sorted in place, and its address.
findMatchingShows(h, userArtistNames, shows) ==
  [h |-> Alloc(h, ArrayObj(sortByDate(h, filterMatches(h, userArtistNames,
                                                       h[shows].elems, 1)))),
   r |-> NewAddr(h)]

(***************************************************************************)
(* Inputs of the week-window specification                                 *)
(***************************************************************************)
\* Number of consecutive reference days taken from each base day.
RefSpan == 21
\* Base days: before a year boundary, before a leap day, before a common
\* year's end of February.
RefBases == {DaysFromCivil(2025, 12, 22), DaysFromCivil(2024, 2, 19),
             DaysFromCivil(2026, 2, 9)}
RefDays == UNION {b .. (b + RefSpan - 1) : b \in RefBases}
\* Times of day tried: midnight, one ms later, 15:30, the last ms of the day.
RefMs == {0, 1, 55800000, MsPerDay - 1}

NoRet == [k |-> "none"]

InitWeek ==
  /\ \E day \in RefDays, ms \in RefMs : heap = <<DateObj(day, ms)>>
  /\ heap0 = heap
  /\ refDate = 1
  /\ showsIn = 0
  /\ pc = "week"
  /\ ret = NoRet
  /\ probe = 0

SetWindow(w) ==
  /\ heap' = w.h
  /\ ret' = [k |-> "window", start |-> w.start, end |-> w.end]
\* getWeekStart(d) and getWeekEnd(d) for the reference date d.
CallWeekWindow ==
  /\ pc = "week"
  /\ SetWindow(windowOf(heap, refDate))
  /\ pc' = "window"
  /\ UNCHANGED <<heap0, refDate, showsIn, probe>>

SetProbe(w) ==
  /\ heap' = w.h
  /\ ret' = [k |-> "probe", start |-> ret.start, end |-> ret.end,
             pstart |-> w.start, pend |-> w.end]
\* getWeekStart(x) and getWeekEnd(x) for an instant x of the window.
CallProbe ==
  /\ pc = "window"
  /\ \E day \in heap[ret.start].day .. heap[ret.end].day, ms \in RefMs :
       /\ probe' = NewAddr(heap)
       /\ SetProbe(windowOf(Alloc(heap, DateObj(day, ms)), NewAddr(heap)))
  /\ pc' = "probed"
  /\ UNCHANGED <<heap0, refDate, showsIn>>

NextWeek == CallWeekWindow \/ CallProbe

SpecWeek == InitWeek /\ [][NextWeek]_vars

(***************************************************************************)
(* Claims about the week window (checked under SpecWeek)                   *)
(***************************************************************************)
\* Instant a is not after instant b.
NotAfter(a, b) == a.day < b.day \/ (a.day = b.day /\ a.ms <= b.ms)

WindowKnown == pc \in {"window", "probed"}

\* C3: for every date d, getWeekStart(d) is a Monday at local 00:00:00.000
\* on or before d's calendar day: 0 days back for a Monday, dayOfWeek-1 days
\* back for Tuesday..Saturday, 6 days back for a Sunday.
C3_WeekStartIsMonday ==
  WindowKnown =>
    LET d == heap0[refDate]
        ws == heap[ret.start]
        back == d.day - ws.day
    IN /\ getDay(ws) = 1
       /\ ws.ms = 0
       /\ ws.day <= d.day
       /\ getDay(d) = 1 => back = 0
       /\ getDay(d) \in 2..6 => back = getDay(d) - 1
       /\ getDay(d) = 0 => back = 6

\* C3 witness: the window of a Sunday reference date has been computed.
C3_Witness == pc = "window" /\ getDay(heap0[refDate]) = 0 /\ heap0[refDate].ms > 0

\* C4: for every date d, getWeekEnd(d) is the Sunday exactly 6 calendar days
\* after getWeekStart(d) at 23:59:59.999, also across a month or year
\* boundary, and d lies within [getWeekStart(d), getWeekEnd(d)].
C4_WeekEndIsSunday ==
  WindowKnown =>
    LET d == heap0[refDate]
        ws == heap[ret.start]
        we == heap[ret.end]
    IN /\ we.day = ws.day + 6
       /\ we.ms = ((23 * 60 + 59) * 60 + 59) * 1000 + 999
       /\ getDay(we) = 0
       /\ NotAfter(ws, d)
       /\ NotAfter(d, we)

\* C4 witness: a computed window whose Monday and Sunday lie in different years.
C4_Witness ==
  /\ pc = "window"
  /\ getFullYear(heap[ret.start]) + 1 = getFullYear(heap[ret.end])

\* C5: for every reference date d and every instant x with
\* getWeekStart(d) <= x <= getWeekEnd(d), getWeekStart(x) = getWeekStart(d)
\* and getWeekEnd(x) = getWeekEnd(d).
C5_WindowStable ==
  pc = "probed" =>
    /\ NotAfter(heap[ret.start], heap[probe])
    /\ NotAfter(heap[probe], heap[ret.end])
    /\ heap[ret.pstart] = heap[ret.start]
    /\ heap[ret.pend] = heap[ret.end]

\* C5 witness: the window was recomputed from its own last instant, for a
\* reference date on another day of the week.
C5_Witness ==
  /\ pc = "probed"
  /\ heap[probe] = heap[ret.end]
  /\ heap0[refDate].day < heap[probe].day

(***************************************************************************)
(* Inputs and actions of the organizer specification                       *)
(***************************************************************************)
\* Longest shows array tried.
MaxShows == 3
\* Number of consecutive reference days tried, from Monday 2025-12-29: the
\* week that ends on Sunday 2026-01-04.
OrgSpan == 7
OrgDays == DaysFromCivil(2025, 12, 29) .. (DaysFromCivil(2025, 12, 29) + OrgSpan - 1)
\* Times of day of the reference date: midnight and 15:30, as in the tests.
OrgMs == {0, 55800000}

T0800PM == <<"0", "8", ":", "0", "0", " ", "P", "M">>
T700PM == <<"7", ":", "0", "0", " ", "P", "M">>
T0700pm == <<"0", "7", ":", "0", "0", " ", "p", "m">>
T1200AM == <<"1", "2", ":", "0", "0", " ", "A", "M">>
Feb30 == <<"2", "/", "3", "0", "/", "2", "0", "2", "6">>
BandName == <<"B", "a", "n", "d">>
Modified == <<"M", "o", "d", "i", "f", "i", "e", "d">>

\* The array elements tried.  A show's date is either a fixed value or the
\* en-US date of the day off days after the reference day.
Cands ==
  << [obj |-> TRUE, rel |-> TRUE, off |-> 0, time |-> Str(T0800PM)],
     [obj |-> TRUE, rel |-> TRUE, off |-> 0, time |-> Str(T700PM)],
     [obj |-> TRUE, rel |-> TRUE, off |-> 0, time |-> Str(T0700pm)],
     [obj |-> TRUE, rel |-> TRUE, off |-> 0, time |-> Undefined],
     [obj |-> TRUE, rel |-> TRUE, off |-> 1, time |-> Str(T1200AM)],
     [obj |-> TRUE, rel |-> TRUE, off |-> 0 - 7, time |-> Str(T0800PM)],
     [obj |-> TRUE, rel |-> FALSE, date |-> Str(Feb30), time |-> Str(T0800PM)],
     [obj |-> TRUE, rel |-> FALSE, date |-> Undefined, time |-> Undefined],
     [obj |-> FALSE, v |-> Null],
     [obj |-> FALSE, v |-> Num(7)] >>

candDate(c, refDay) == IF c.rel THEN Str(FmtUS(refDay + c.off)) ELSE c.date
\* The venue names the position of the show in the input array.
venueTag(i) == Str(<<"V", DigitChars[i + 1]>>)

RECURSIVE buildShows(_, _, _, _, _)
\* The heap with the shows array of the chosen elements, each show object
\* with an artists array of its own.
buildShows(h, elems, choice, i, refDay) ==
  IF i > Len(choice) THEN [h |-> Alloc(h, ArrayObj(elems)), r |-> NewAddr(h)]
  ELSE IF ~Cands[choice[i]].obj
  THEN buildShows(h, Append(elems, Cands[choice[i]].v), choice, i + 1, refDay)
  ELSE buildShows(Alloc(Alloc(h, ArrayObj(<<Str(BandName)>>)),
                        ShowObj(Ref(NewAddr(h)), venueTag(i),
                                candDate(Cands[choice[i]], refDay),
                                Cands[choice[i]].time)),
                  Append(elems, Ref(NewAddr(h) + 1)), choice, i + 1, refDay)

SetInputs(b) ==
  /\ heap = b.h
  /\ heap0 = b.h
  /\ showsIn = b.r

InitOrganize ==
  /\ \E day \in OrgDays, ms \in OrgMs, n \in 0..MaxShows :
       \E choice \in [1..n -> 1..Len(Cands)] :
         SetInputs(buildShows(<<DateObj(day, ms)>>, <<>>, choice, 1, day))
  /\ refDate = 1
  /\ pc = "org"
  /\ ret = NoRet
  /\ probe = 0

SetOrganized(r) ==
  /\ heap' = r.h
  /\ ret' = IF r.k = "throw" THEN [k |-> "throw", error |-> r.error]
            ELSE [k |-> "schedule", weekStartDate |-> r.weekStartDate,
                  weekEndDate |-> r.weekEndDate, days |-> r.days]
  /\ pc' = IF r.k = "throw" THEN "threw" ELSE "organized"
\* const result = organizeShowsByWeek(shows, refDate);
CallOrganize ==
  /\ pc = "org"
  /\ SetOrganized(organizeShowsByWeek(heap, showsIn, refDate))
  /\ UNCHANGED <<heap0, refDate, showsIn, probe>>

\* result.days[n].shows[j].venue = 'Modified';
MutateOutputField ==
  /\ pc = "organized"
  /\ \E n \in DOMAIN ret.days : \E j \in DOMAIN ret.days[n].shows :
       /\ probe' = ret.days[n].shows[j].ref
       /\ heap' = Store(heap, ret.days[n].shows[j].ref,
                        [heap[ret.days[n].shows[j].ref] EXCEPT !.venue = Str(Modified)])
  /\ pc' = "mutated"
  /\ UNCHANGED <<heap0, refDate, showsIn, ret>>

\* result.days[n].shows[j].artists[0] = 'Modified';
MutateOutputArtists ==
  /\ pc = "organized"
  /\ \E n \in DOMAIN ret.days : \E j \in DOMAIN ret.days[n].shows :
       /\ IsRef(heap[ret.days[n].shows[j].ref].artists)
       /\ probe' = ret.days[n].shows[j].ref
       /\ heap' = Store(heap, heap[ret.days[n].shows[j].ref].artists.ref,
                        ArrayObj([heap[heap[ret.days[n].shows[j].ref].artists.ref].elems
                                    EXCEPT ![1] = Str(Modified)]))
  /\ pc' = "mutated"
  /\ UNCHANGED <<heap0, refDate, showsIn, ret>>

NextOrganize == CallOrganize \/ MutateOutputField \/ MutateOutputArtists

SpecOrganize == InitOrganize /\ [][NextOrganize]_vars

(***************************************************************************)
(* Claims about organizeShowsByWeek (checked under SpecOrganize)           *)
(***************************************************************************)
\* The elements of the input array, as they were before the call.
InputElems == heap0[showsIn].elems
IsShowRef(h, v) == IsRef(v) /\ h[v.ref].kind = "show"
\* The Monday of the reference date's week, from getWeekStart on the inputs.
WeekStartOfInput == getWeekStartSet(Alloc(heap0, heap0[refDate]), NewAddr(heap0))[NewAddr(heap0)]
\* Positions of the input shows whose date parseShowDate accepts and whose
\* calendar day is day n (1 = Monday) of the week.
ExpectedIn(n) ==
  {j \in DOMAIN InputElems :
     /\ IsShowRef(heap0, InputElems[j])
     /\ parseShowDate(heap0[InputElems[j].ref].date).kind = "date"
     /\ parseShowDate(heap0[InputElems[j].ref].date).day = WeekStartOfInput.day + n - 1}
\* The input position of an output show (input shows differ in their venue).
InputPos(r) ==
  CHOOSE j \in DOMAIN InputElems :
    IsShowRef(heap0, InputElems[j]) /\ heap0[InputElems[j].ref] = heap[r.ref]
TimeKey(r) == parseShowTime(heap[r.ref].time)
\* No object the caller passed in has changed.
InputsUnchanged == \A a \in DOMAIN heap0 : heap[a] = heap0[a]

\* C1: for every shows array and every reference date d,
\* organizeShowsByWeek(shows, d).days has exactly 7 entries labelled Mon..Sun
\* in that order, whose ISO dates are the 7 consecutive calendar days starting
\* at getWeekStart(d); a day with no shows is present with an empty shows list.
C1_SevenDays ==
  pc \in {"organized", "threw"} =>
    /\ pc = "organized"
    /\ Len(ret.days) = 7
    /\ [n \in 1..7 |-> ret.days[n].label]
         = <<"Mon", "Tue", "Wed", "Thu", "Fri", "Sat", "Sun">>
    /\ heap[ret.weekStartDate] = WeekStartOfInput
    /\ \A n \in 1..7 :
         /\ ret.days[n].date = toISODateString(DateObj(WeekStartOfInput.day + n - 1, 0))
         /\ ExpectedIn(n) = {} => ret.days[n].shows = <<>>

\* C2: every day of the result holds exactly one entry per input show whose
\* date parseShowDate accepts and whose calendar date is that day's date; no
\* show dated outside the week appears, no show appears in two days, and the
\* day lists together hold as many entries as there are such input shows.
C2_ExactlyInWindow ==
  pc = "organized" =>
    \A n \in 1..7 :
      /\ Len(ret.days[n].shows) = Cardinality(ExpectedIn(n))
      /\ {heap[ret.days[n].shows[p].ref] : p \in DOMAIN ret.days[n].shows}
           = {heap0[InputElems[j].ref] : j \in ExpectedIn(n)}
      /\ \A k \in 1..7 : \A p \in DOMAIN ret.days[n].shows :
           \A q \in DOMAIN ret.days[k].shows :
             heap[ret.days[n].shows[p].ref] = heap[ret.days[k].shows[q].ref]
               => (n = k /\ p = q)

\* C2 witness: of three input shows one is in the week, one has a valid date
\* in another week and one has a date parseShowDate rejects.
C2_Witness ==
  /\ pc = "organized"
  /\ Len(InputElems) = 3
  /\ Cardinality(UNION {ExpectedIn(n) : n \in 1..7}) = 1
  /\ \E j \in DOMAIN InputElems :
       /\ IsShowRef(heap0, InputElems[j])
       /\ parseShowDate(heap0[InputElems[j].ref].date).kind = "date"
       /\ j \notin UNION {ExpectedIn(n) : n \in 1..7}
  /\ \E j \in DOMAIN InputElems :
       /\ IsShowRef(heap0, InputElems[j])
       /\ IsStr(heap0[InputElems[j].ref].date)
       /\ parseShowDate(heap0[InputElems[j].ref].date).kind = "null"

\* C6: within each day the shows are in non-decreasing order of
\* parseShowTime(time), and shows of equal minute value (two unparseable
\* times included) keep their relative order from the input array.
C6_StableTimeOrder ==
  pc = "organized" =>
    \A n \in 1..7 : \A p, q \in DOMAIN ret.days[n].shows :
      p < q =>
        /\ TimeKey(ret.days[n].shows[p]) <= TimeKey(ret.days[n].shows[q])
        /\ TimeKey(ret.days[n].shows[p]) = TimeKey(ret.days[n].shows[q])
             => InputPos(ret.days[n].shows[p]) < InputPos(ret.days[n].shows[q])

\* C6 witness: a day of three shows, two of them without a parseable time,
\* in which the sort has moved a show in front of an earlier input show.
C6_Witness ==
  /\ pc = "organized"
  /\ \E n \in 1..7 :
       /\ Len(ret.days[n].shows) = 3
       /\ \E p, q \in 1..3 :
            /\ p < q
            /\ ~IsStr(heap[ret.days[n].shows[p].ref].time)
            /\ ~IsStr(heap[ret.days[n].shows[q].ref].time)
       /\ \E p, q \in 1..3 :
            /\ p < q
            /\ InputPos(ret.days[n].shows[p]) > InputPos(ret.days[n].shows[q])

\* C7: organizeShowsByWeek leaves its inputs unchanged: the shows array has
\* the same elements in the same order, every input show object the same
\* field values, and the reference date denotes the same instant.
C7_InputsUnchanged ==
  pc \in {"organized", "threw"} => InputsUnchanged

\* C7 witness: a call that moved the week start off the reference instant
\* and returned a day whose shows are not in input order.
C7_Witness ==
  /\ pc = "organized"
  /\ heap[ret.weekStartDate] /= heap0[refDate]
  /\ \E n \in 1..7 : \E p, q \in DOMAIN ret.days[n].shows :
       p < q /\ InputPos(ret.days[n].shows[p]) > InputPos(ret.days[n].shows[q])

\* C8: every output show is an independent copy of its input show: a later
\* change made through the output (a field of an output show, or an element
\* of an output show's artists sequence) never changes an input show.
C8_OutputIndependent ==
  pc = "mutated" => InputsUnchanged

\* C10: the organizer never raises for a malformed record: for an array with
\* an element that is null, not an object, or lacks a usable date or time it
\* completes, returns the 7-day schedule and leaves that record out.
C10_NeverRaises ==
  pc \in {"organized", "threw"} => (ret.k = "schedule" /\ Len(ret.days) = 7)

(***************************************************************************)
(* Inputs and actions of the matcher specification                         *)
(***************************************************************************)
TheNational == <<"T", "h", "e", " ", "N", "a", "t", "i", "o", "n", "a", "l">>
NationalLower == <<"n", "a", "t", "i", "o", "n", "a", "l">>
NationalUpper == <<"N", "A", "T", "I", "O", "N", "A", "L">>
OtherBand == <<"O", "t", "h", "e", "r">>
Mar1 == <<"3", "/", "1", "/", "2", "0", "2", "6">>
Feb1 == <<"2", "/", "1", "/", "2", "0", "2", "6">>
Jan1 == <<"1", "/", "1", "/", "2", "0", "2", "6">>
BadDate == <<"b", "a", "d", "-", "d", "a", "t", "e">>

\* The array elements tried: shows (their artists field and date), null, a number.
MatchCands ==
  << [obj |-> TRUE, arr |-> TRUE, artists |-> <<Str(TheNational)>>, date |-> Str(Mar1)],
     [obj |-> TRUE, arr |-> TRUE, artists |-> <<Str(OtherBand), Str(NationalLower)>>,
      date |-> Str(Jan1)],
     [obj |-> TRUE, arr |-> TRUE, artists |-> <<Str(OtherBand)>>, date |-> Str(Feb1)],
     [obj |-> TRUE, arr |-> TRUE, artists |-> <<Str(NationalUpper)>>, date |-> Str(BadDate)],
     [obj |-> TRUE, arr |-> FALSE, artists |-> Str(TheNational), date |-> Str(Jan1)],
     [obj |-> FALSE, v |-> Null],
     [obj |-> FALSE, v |-> Num(7)] >>
\* The user's artists tried.
UserArtistLists ==
  { <<ArtistRec(Str(TheNational))>>,
    <<Null, ArtistRec(Undefined), ArtistRec(Str(OtherBand))>>,
    <<ArtistRec(Str(OtherBand)), ArtistRec(Str(NationalUpper))>>,
    <<>> }

\* The artists field of a candidate show whose array, if any, is at address a.
candArtists(c, a) == IF c.arr THEN Ref(a) ELSE c.artists
candArtistsObj(c) == IF c.arr THEN ArrayObj(c.artists) ELSE ArrayObj(<<>>)
RECURSIVE buildMatchShows(_, _, _, _)
\* The heap with the shows array of the chosen elements.
buildMatchShows(h, elems, choice, i) ==
  IF i > Len(choice) THEN [h |-> Alloc(h, ArrayObj(elems)), r |-> NewAddr(h)]
  ELSE IF ~MatchCands[choice[i]].obj
  THEN buildMatchShows(h, Append(elems, MatchCands[choice[i]].v), choice, i + 1)
  ELSE buildMatchShows(Alloc(Alloc(h, candArtistsObj(MatchCands[choice[i]])),
                             ShowObj(candArtists(MatchCands[choice[i]], NewAddr(h)),
                                     venueTag(i), MatchCands[choice[i]].date,
                                     Str(T0800PM))),
                       Append(elems, Ref(NewAddr(h) + 1)), choice, i + 1)

InitMatch ==
  /\ \E n \in 0..MaxShows : \E choice \in [1..n -> 1..Len(MatchCands)] :
       SetInputs(buildMatchShows(<<>>, <<>>, choice, 1))
  /\ \E artists \in UserArtistLists : probe = createArtistNameSet(artists)
  /\ refDate = 0
  /\ pc = "match"
  /\ ret = NoRet

SetMatched(r) ==
  /\ heap' = r.h
  /\ ret' = [k |-> "matches", arr |-> r.r]
\* const matches = findMatchingShows(userArtistNames, shows);
CallFindMatching ==
  /\ pc = "match"
  /\ SetMatched(findMatchingShows(heap, probe, showsIn))
  /\ pc' = "matched"
  /\ UNCHANGED <<heap0, refDate, showsIn, probe>>

\* matches[j].venue = 'Modified';
MutateMatchField ==
  /\ pc = "matched"
  /\ \E j \in DOMAIN heap[ret.arr].elems :
       heap' = Store(heap, heap[ret.arr].elems[j].ref,
                     [heap[heap[ret.arr].elems[j].ref] EXCEPT !.venue = Str(Modified)])
  /\ pc' = "mutated"
  /\ UNCHANGED <<heap0, refDate, showsIn, ret, probe>>

NextMatch == CallFindMatching \/ MutateMatchField

SpecMatch == InitMatch /\ [][NextMatch]_vars

(***************************************************************************)
(* Claims about findMatchingShows (checked under SpecMatch)                *)
(***************************************************************************)
\* C9: findMatchingShows does not reorder or otherwise mutate the input
\* shows array, and every show of its result is an independent copy:
\* modifying a returned show never changes a show of the input array.
C9_MatchesIndependent ==
  pc \in {"matched", "mutated"} => InputsUnchanged

\* The shows returned, in order.
MatchElems == heap[ret.arr].elems
\* Input element j is a non-null object whose artists field is a sequence
\* with an entry that normalizes to a member of the name set.
Qualifies(j) ==
  /\ IsShowRef(heap0, InputElems[j])
  /\ IsRef(heap0[InputElems[j].ref].artists)
  /\ heap0[heap0[InputElems[j].ref].artists.ref].kind = "array"
  /\ \E i \in DOMAIN heap0[heap0[InputElems[j].ref].artists.ref].elems :
       normalizeArtistName(heap0[heap0[InputElems[j].ref].artists.ref].elems[i]) \in probe

\* C19: findMatchingShows returns a show if and only if it is a non-null
\* object whose artists field is a sequence and at least one of its artists
\* normalizes to a member of the name set; elements that are null, not
\* objects, or without an artists sequence are excluded without an error,
\* and each included show appears exactly once.
C19_ExactlyTheMatches ==
  pc = "matched" =>
    /\ ret.k = "matches"
    /\ Len(MatchElems) = Cardinality({j \in DOMAIN InputElems : Qualifies(j)})
    /\ \A j \in DOMAIN InputElems :
         Cardinality({p \in DOMAIN MatchElems : MatchElems[p] = InputElems[j]})
           = IF Qualifies(j) THEN 1 ELSE 0

\* C19 witness: of null, a show whose two artists both match and a show
\* whose artists field is a string, only the second is returned, once.
C19_Witness ==
  /\ pc = "matched"
  /\ Len(InputElems) = 3
  /\ InputElems[1] = Null
  /\ Qualifies(2)
  /\ \A i \in DOMAIN heap0[heap0[InputElems[2].ref].artists.ref].elems :
       normalizeArtistName(heap0[heap0[InputElems[2].ref].artists.ref].elems[i]) \in probe
  /\ Len(heap0[heap0[InputElems[2].ref].artists.ref].elems) = 2
  /\ IsShowRef(heap0, InputElems[3]) /\ IsStr(heap0[InputElems[3].ref].artists)
  /\ MatchElems = <<InputElems[2]>>

\* The time value new Date(show.date) gives for a returned show.
MatchDate(p) == newDateOf(heap[MatchElems[p].ref].date)
IsAfter(ta, tb) == ta.day > tb.day \/ (ta.day = tb.day /\ ta.ms > tb.ms)

\* C20: the result of findMatchingShows is sorted ascending by date: of two
\* adjacent shows whose dates are both parseable the earlier one's date is
\* not after the later one's, whatever the order of the input and also when
\* shows with unparseable dates are among the matches.
C20_AdjacentAscending ==
  pc = "matched" =>
    \A p \in 1..(Len(MatchElems) - 1) :
      (MatchDate(p).ok /\ MatchDate(p + 1).ok) => ~IsAfter(MatchDate(p), MatchDate(p + 1))

\* C20 witness: three matches, one with an unparseable date, returned in an
\* order other than the input's, with two parseable dates adjacent.
C20_Witness ==
  /\ pc = "matched"
  /\ Len(MatchElems) = 3
  /\ \E p \in 1..3 : ~MatchDate(p).ok
  /\ \E p \in 1..2 : MatchDate(p).ok /\ MatchDate(p + 1).ok
                       /\ MatchDate(p) /= MatchDate(p + 1)
  /\ MatchElems /= InputElems

(***************************************************************************)
(* Inputs and actions of the date-parsing specification                    *)
(***************************************************************************)
\* Months tried are -1..MaxMonth and days -1..MaxDay.
MaxMonth == 14
MaxDay == 32
\* Years tried: two-digit years, a year below 1000, century years, a leap
\* year and common years.
DateYears == {0, 4, 100, 1900, 2000, 2023, 2024, 2026}
DateTriples ==
  [kind : {"triple"}, m : (0 - 1)..MaxMonth, d : (0 - 1)..MaxDay, y : DateYears]
\* Other values of the date field: non-strings and strings that are not
\* three numbers.
RawDates ==
  { Undefined, Null, Num(2102026), Str(<<>>),
    Str(<<"i", "n", "v", "a", "l", "i", "d">>),
    Str(<<"2", "/", "1", "0">>),
    Str(<<"2", "/", "1", "0", "/", "2", "0", "2", "6", "/", "1">>),
    Str(<<"2", "x", "/", "1", "0", "/", "2", "0", "2", "6">>),
    Str(<<"2", "/", "1", "0", " ", "/", "2", "0", "2", "6">>),
    Str(<<" ", "2", "/", "1", "0", "/", "2", "0", "2", "6">>),
    Str(<<"2", "/", "1", "0", "/", "2", "0", "2", "6", ".", "5">>),
    Str(<<"2", "/", "1", "0", "/", "2", "6">>),
    Str(<<"2", "/", " ", "/", "2", "0", "2", "6">>),
    Str(<<"a", "/", "b", "/", "c">>),
    Str(<<"2", "-", "1", "0", "-", "2", "0", "2", "6">>),
    Str(<<"0", "2", "/", "0", "1", "0", "/", "2", "0", "2", "6">>),
    Str(<<"/", "/">>) }
DateCases == DateTriples \cup [kind : {"raw"}, v : RawDates]

\* `${m}/${d}/${y}`
dateStrOf(t) ==
  IntToStr(t.m) \o <<"/">> \o IntToStr(t.d) \o <<"/">> \o IntToStr(t.y)
dateInput(c) == IF c.kind = "triple" THEN Str(dateStrOf(c)) ELSE c.v
\* The reference day of the week asked for: the day the Date constructor
\* gives for the numbers (rolled over), 2026-02-10 for the other values.
refDayOf(c) ==
  IF c.kind = "triple" THEN newDateYMD(c.y, c.m - 1, c.d).day
  ELSE DaysFromCivil(2026, 2, 10)
\* The heap of a call with one show: the reference date, the show's artists,
\* the show and the shows array.
oneShowHeap(date, refDay) ==
  << DateObj(refDay, 0), ArrayObj(<<Str(BandName)>>),
     ShowObj(Ref(2), venueTag(1), date, Str(T0800PM)), ArrayObj(<<Ref(3)>>) >>

InitDate ==
  /\ probe \in DateCases
  /\ heap = oneShowHeap(dateInput(probe), refDayOf(probe))
  /\ heap0 = heap
  /\ refDate = 1
  /\ showsIn = 4
  /\ pc = "date"
  /\ ret = NoRet

\* const date = parseShowDate(show.date);
CallParseShowDate ==
  /\ pc = "date"
  /\ ret' = [k |-> "date", v |-> parseShowDate(heap[3].date)]
  /\ pc' = "parsed"
  /\ UNCHANGED <<heap, heap0, refDate, showsIn, probe>>

\* const result = organizeShowsByWeek([show], refDate);
CallOrganizeDated ==
  /\ pc = "parsed"
  /\ SetOrganized(organizeShowsByWeek(heap, showsIn, refDate))
  /\ UNCHANGED <<heap0, refDate, showsIn, probe>>

NextDate == CallParseShowDate \/ CallOrganizeDated

SpecDate == InitDate /\ [][NextDate]_vars

(***************************************************************************)
(* Claims about parseShowDate (checked under SpecDate)                     *)
(***************************************************************************)
IsLeapYear(y) == (y % 4 = 0 /\ y % 100 /= 0) \/ y % 400 = 0
DaysInMonth(y, m) ==
  IF m = 2 THEN (IF IsLeapYear(y) THEN 29 ELSE 28)
  ELSE IF m \in {4, 6, 9, 11} THEN 30 ELSE 31
\* The day/month combination of the triple exists in its year.
ExistsInCalendar(t) == t.m \in 1..12 /\ t.d >= 1 /\ t.d <= DaysInMonth(t.y, t.m)

\* C11: parseShowDate returns null for every month/day/year triple whose
\* day/month combination does not exist in that year (month outside 1..12,
\* day 0, day past the month's end, Feb 29 of a non-leap year), and a show
\* with such a date is in no day of the week, the week the date would roll
\* into included.
C11_NonexistentRejected ==
  (probe.kind = "triple" /\ ~ExistsInCalendar(probe)) =>
    /\ pc = "parsed" => ret.v = NullDate
    /\ pc = "organized" => \A n \in 1..7 : ret.days[n].shows = <<>>

\* C11 witness: the show dated 2/30/2026 organized for the week of Monday
\* 2026-03-02, the day the date would roll forward to.
C11_Witness ==
  /\ pc = "organized"
  /\ probe = [kind |-> "triple", m |-> 2, d |-> 30, y |-> 2026]
  /\ ret.days[1].date = <<"2", "0", "2", "6", "-", "0", "3", "-", "0", "2">>
  /\ \A n \in 1..7 : ret.days[n].shows = <<>>

\* The value is a string of exactly three slash-separated segments, each
\* made of digits only.
IsExactShape(v) ==
  /\ IsStr(v)
  /\ Len(split(v.s, "/")) = 3
  /\ \A i \in 1..3 : allDigits(split(v.s, "/")[i])

\* C12: parseShowDate returns null for every non-string input, for every
\* string that does not split into exactly three slash-separated segments,
\* and for every string with a segment that is not purely numeric.
C12_OnlyExactShape ==
  (pc = "parsed" /\ ~IsExactShape(dateInput(probe))) => ret.v = NullDate

\* The zero-padded "YYYY-MM-DD" of the three numbers of a triple.
IsoOfTriple(t) ==
  IntToStr(t.y) \o <<"-">> \o padStart2(IntToStr(t.m)) \o <<"-">> \o padStart2(IntToStr(t.d))
\* C30: a date parseShowDate returns is at local midnight and its year,
\* month and day are the three numbers of the input string, for every year
\* including the years below 100; for a four-digit year toISODateString of
\* it is the zero-padded "YYYY-MM-DD" of the same numbers.
C30_SameYearMonthDay ==
  (pc = "parsed" /\ probe.kind = "triple" /\ ret.v /= NullDate) =>
    /\ ret.v.ms = 0
    /\ getFullYear(ret.v) = probe.y
    /\ getMonth(ret.v) + 1 = probe.m
    /\ getDate(ret.v) = probe.d
    /\ probe.y >= 1000 => toISODateString(ret.v) = IsoOfTriple(probe)

(***************************************************************************)
(* Inputs and actions of the time-parsing specification                    *)
(***************************************************************************)
\* Hours tried are 0..MaxHour, written with one digit or zero-padded.
MaxHour == 13
Meridiems ==
  {<<"A", "M">>, <<"P", "M">>, <<"a", "m">>, <<"p", "m">>, <<"A", "m">>, <<"p", "M">>}
\* What stands between the minutes and the meridiem.
TimeSeps == {<<" ">>, <<>>, <<" ", " ">>}
TimeGrid ==
  [kind : {"grid"}, h : 0..MaxHour, pad : BOOLEAN, m : 0..59,
   sep : TimeSeps, mer : Meridiems]
\* Other values of the time field.
RawTimes ==
  { Undefined, Null, Num(730), Str(<<>>),
    Str(<<"i", "n", "v", "a", "l", "i", "d">>),
    Str(<<"9", "9", ":", "9", "9", " ", "P", "M">>),
    Str(<<"7", ":", "0", "0">>),
    Str(<<"7", ":", "0", "0", " ", "X", "M">>),
    Str(<<"x", "7", ":", "0", "0", " ", "P", "M">>),
    Str(<<"7", ":", "0", "0", " ", "P", "M", " ", "x">>),
    Str(<<"7", ":", "0", "0", " ", "P", "M", " ">>),
    Str(<<"7", ":", "5", " ", "P", "M">>),
    Str(<<"0", "0", "7", ":", "0", "0", " ", "P", "M">>),
    Str(<<"7", ":", "0", "0", "\t", "P", "M">>),
    Str(<<"7", ".", "0", "0", " ", "P", "M">>),
    Str(<<"7", ":", "0", "0", " ", "P", " ", "M">>),
    Str(<<"1", "9", ":", "0", "0">>),
    Str(<<"8", "p", "m">>),
    Str(<<" ", "7", ":", "0", "0", " ", "P", "M">>),
    Str(<<":", "0", "0", " ", "P", "M">>),
    Str(<<"7", ":", "0", "0", "0", " ", "P", "M">>) }
TimeCases == TimeGrid \cup [kind : {"raw"}, v : RawTimes]

hourStrOf(c) == IF c.pad THEN padStart2(IntToStr(c.h)) ELSE IntToStr(c.h)
\* "H:MM AM", "HH:MM pm", ...
timeStrOf(c) ==
  hourStrOf(c) \o <<":">> \o padStart2(IntToStr(c.m)) \o c.sep \o c.mer
timeInput(c) == IF c.kind = "grid" THEN Str(timeStrOf(c)) ELSE c.v

InitTime ==
  /\ probe \in TimeCases
  /\ heap = <<>>
  /\ heap0 = <<>>
  /\ refDate = 0
  /\ showsIn = 0
  /\ pc = "time"
  /\ ret = NoRet

\* const minutes = parseShowTime(time);
CallParseShowTime ==
  /\ pc = "time"
  /\ ret' = [k |-> "minutes", v |-> parseShowTime(timeInput(probe))]
  /\ pc' = "timed"
  /\ UNCHANGED <<heap, heap0, refDate, showsIn, probe>>

NextTime == CallParseShowTime

SpecTime == InitTime /\ [][NextTime]_vars

(***************************************************************************)
(* Claims about parseShowTime (checked under SpecTime)                     *)
(***************************************************************************)
\* C13: for every input whatsoever (any string, also with hour digits above
\* 12 or minute digits above 59, and any non-string) parseShowTime returns
\* an integer in the range [0, 1439].
C13_InRange ==
  pc = "timed" => (ret.v >= 0 /\ ret.v <= 1439)

IsPM(mer) == mer[1] \in {"P", "p"}
\* The minutes since midnight of hour h (1..12), minute m and the meridiem.
MinutesOfClock(h, m, mer) ==
  IF IsPM(mer) THEN (IF h = 12 THEN 720 + m ELSE 60 * (h + 12) + m)
  ELSE (IF h = 12 THEN m ELSE 60 * h + m)

\* C14: for every hour h in 1..12, minute m in 00..59 and meridiem in any
\* letter case, parseShowTime("h:mm AM/PM") gives m for 12 AM, 60*h + m for
\* 1..11 AM, 720 + m for 12 PM and 60*(h+12) + m for 1..11 PM, the same for
\* a one-digit and a zero-padded two-digit hour.
C14_TwelveHourClock ==
  (pc = "timed" /\ probe.kind = "grid" /\ probe.h \in 1..12 /\ probe.sep = <<" ">>) =>
    ret.v = MinutesOfClock(probe.h, probe.m, probe.mer)

\* C14 witness: "9:30 pm" with a one-digit hour gives 1290, and the noon
\* and midnight hours have been parsed.
C14_Witness ==
  /\ pc = "timed"
  /\ probe = [kind |-> "grid", h |-> 9, pad |-> FALSE, m |-> 30,
              sep |-> <<" ">>, mer |-> <<"p", "m">>]
  /\ timeInput(probe) = Str(<<"9", ":", "3", "0", " ", "p", "m">>)
  /\ ret.v = 1290

IsMeridiem(s, i) == s[i] \in {"A", "a", "P", "p"} /\ s[i + 1] \in {"M", "m"}
\* A k-digit hour, a colon and two minute digits start the string.
HasClock(s, k) ==
  /\ Len(s) >= k + 3
  /\ \A i \in 1..k : IsDigit(s[i])
  /\ s[k + 1] = ":"
  /\ IsDigit(s[k + 2]) /\ IsDigit(s[k + 3])
\* The value is a string made of a one-or-two digit hour, a colon, exactly
\* two minute digits, one space, and AM or PM.
IsStrictTimeShape(v) ==
  /\ IsStr(v)
  /\ \E k \in {1, 2} :
       /\ Len(v.s) = k + 6
       /\ HasClock(v.s, k)
       /\ v.s[k + 4] = " "
       /\ IsMeridiem(v.s, k + 5)
\* The same with any run of white space, also none, before the meridiem.
IsTimeShape(v) ==
  /\ IsStr(v)
  /\ \E k \in {1, 2} :
       /\ Len(v.s) >= k + 5
       /\ HasClock(v.s, k)
       /\ \A i \in (k + 4)..(Len(v.s) - 2) : IsSpace(v.s[i])
       /\ IsMeridiem(v.s, Len(v.s) - 1)

\* C15 (as stated): parseShowTime returns 0 for every input that is not a
\* string made of a one-or-two digit hour, a colon, exactly two minute
\* digits, a space, and AM or PM; in particular for a string with no space
\* between the minutes and the meridiem.
C15_StrictShapeOnly ==
  (pc = "timed" /\ ~IsStrictTimeShape(timeInput(probe))) => ret.v = 0

\* C15 (amended): parseShowTime returns 0 for every input that is not a
\* string made of a one-or-two digit hour, a colon, exactly two minute
\* digits, any run of white space (also none), and AM or PM in any letter
\* case; text before the hour or after the meridiem, or no meridiem, yields 0.
C15_ShapeOnly ==
  (pc = "timed" /\ ~IsTimeShape(timeInput(probe))) => ret.v = 0

\* C15 witness: "7:00 PM x", with text after the meridiem, has given 0.
C15_Witness ==
  /\ pc = "timed"
  /\ timeInput(probe) = Str(<<"7", ":", "0", "0", " ", "P", "M", " ", "x">>)
  /\ ret.v = 0

(***************************************************************************)
(* Inputs and actions of the name-normalization specification              *)
(***************************************************************************)
\* The left and right single quotation marks, each one character.
LeftQuote == "U+2018"
RightQuote == "U+2019"
\* Names tried: the names of the tests, names with curly apostrophes, and
\* non-strings.
NameValues ==
  { Undefined, Null, Num(123), Str(<<>>),
    Str(<<"T", "H", "E", " ", "S", "T", "R", "O", "K", "E", "S">>),
    Str(<<"S", "t", "r", "o", "k", "e", "s">>),
    Str(<<"S", "i", "m", "o", "n", " ", "&", " ", "G", "a", "r", "f", "u", "n", "k", "e", "l">>),
    Str(<<" ", " ", "R", "a", "d", "i", "o", "h", "e", "a", "d", " ", " ">>),
    Str(<<"T", "h", "e", " ", " ", " ", "B", "l", "a", "c", "k", " ", " ", " ", "K", "e", "y", "s">>),
    Str(<<"T", "h", "e", " ", "N", "a", "t", "i", "o", "n", "a", "l">>),
    Str(<<"N", "a", "t", "i", "o", "n", "a", "l">>),
    Str(<<"G", "u", "n", "s", " ", "N", "'", " ", "R", "o", "s", "e", "s">>),
    Str(<<"G", "u", "n", "s", " ", "N", RightQuote, " ", "R", "o", "s", "e", "s">>),
    Str(<<"G", "u", "n", "s", " ", "N", LeftQuote, " ", "R", "o", "s", "e", "s">>),
    Str(<<"t", "h", "e">>),
    Str(<<"T", "h", "e", " ", "T", "h", "e">>),
    Str(<<"T", "h", "e", " ", "t", "h", "e", " ", "W", "h", "o">>),
    Str(<<" ", " ">>),
    Str(<<"A", " ", "&", " ", " ", "&", " ", "B">>),
    Str(<<"T", "h", "e", " ", "&", " ", "C", "o">>),
    Str(<<"A", "&", "B">>),
    Str(<<"T", "h", "e", "a", "t", "r", "e">>) }
\* Entries of an artists array: null, a number, records without a name, with
\* an empty name, with a number as name, and with names.
ArtistEntries ==
  { Null, Num(7), ArtistRec(Undefined), ArtistRec(Str(<<>>)), ArtistRec(Num(5)),
    ArtistRec(Str(<<" ", " ">>)),
    ArtistRec(Str(TheNational)), ArtistRec(Str(NationalUpper)),
    ArtistRec(Str(OtherBand)) }
\* Longest artists array tried.
MaxArtists == 3
ArtistLists == UNION {[1..k -> ArtistEntries] : k \in 0..MaxArtists}
NameCases ==
  [kind : {"pair"}, a : NameValues, b : NameValues]
    \cup [kind : {"list"}, artists : ArtistLists]

InitNames ==
  /\ probe \in NameCases
  /\ heap = <<>>
  /\ heap0 = <<>>
  /\ refDate = 0
  /\ showsIn = 0
  /\ pc = "names"
  /\ ret = NoRet

\* const normalized = normalizeArtistName(a);
CallNormalize ==
  /\ pc = "names"
  /\ probe.kind = "pair"
  /\ ret' = [k |-> "name", v |-> normalizeArtistName(probe.a)]
  /\ pc' = "normalized"
  /\ UNCHANGED <<heap, heap0, refDate, showsIn, probe>>

\* const same = artistNamesMatch(a, b);
CallArtistNamesMatch ==
  /\ pc = "names"
  /\ probe.kind = "pair"
  /\ ret' = [k |-> "same", v |-> artistNamesMatch(probe.a, probe.b)]
  /\ pc' = "compared"
  /\ UNCHANGED <<heap, heap0, refDate, showsIn, probe>>

\* const set = createArtistNameSet(artists);
CallCreateArtistNameSet ==
  /\ pc = "names"
  /\ probe.kind = "list"
  /\ ret' = [k |-> "set", v |-> createArtistNameSet(probe.artists)]
  /\ pc' = "collected"
  /\ UNCHANGED <<heap, heap0, refDate, showsIn, probe>>

\* const again = normalizeArtistName(normalizeArtistName(a));
CallNormalizeTwice ==
  /\ pc = "normalized"
  /\ ret' = [k |-> "twice", once |-> ret.v,
             v |-> normalizeArtistName(Str(ret.v))]
  /\ pc' = "renormalized"
  /\ UNCHANGED <<heap, heap0, refDate, showsIn, probe>>

NextNames ==
  CallNormalize \/ CallArtistNamesMatch \/ CallCreateArtistNameSet \/ CallNormalizeTwice

SpecNames == InitNames /\ [][NextNames]_vars

(***************************************************************************)
(* Claims about normalizeArtistName, artistNamesMatch, createArtistNameSet *)
(* (checked under SpecNames)                                               *)
(***************************************************************************)
\* Strip one leading "the ".
StripLeadingThe(s) ==
  IF Len(s) >= 4 /\ SubSeq(s, 1, 4) = <<"t", "h", "e", " ">>
  THEN SubSeq(s, 5, Len(s)) ELSE s
RECURSIVE ReplaceAmpersand(_)
\* Replace " & " with " and ", left to right.
ReplaceAmpersand(s) ==
  IF Len(s) >= 3 /\ SubSeq(s, 1, 3) = <<" ", "&", " ">>
  THEN <<" ", "a", "n", "d", " ">> \o ReplaceAmpersand(SubSeq(s, 4, Len(s)))
  ELSE IF s = <<>> THEN <<>>
  ELSE <<Head(s)>> \o ReplaceAmpersand(Tail(s))
\* Both curly apostrophes become the straight apostrophe.
CurlyToStraight(s) ==
  [i \in DOMAIN s |-> IF s[i] \in {LeftQuote, RightQuote} THEN "'" ELSE s[i]]
\* The transformation as the steps are listed: lowercase, trim, collapse,
\* strip "the ", " & " to " and ", apostrophes, trim.
StepsInOrder(s) ==
  trim(CurlyToStraight(ReplaceAmpersand(StripLeadingThe(
    collapseSpaces(trim(toLowerCase(s)))))))

\* C16: normalizeArtistName returns the empty string for every non-string
\* input, and for every string the result of applying, in this order:
\* lowercase, trim, collapse each white space run to one space, strip one
\* leading "the ", replace " & " with " and ", normalize apostrophes, trim.
C16_StepsInOrder ==
  pc = "normalized" =>
    ret.v = IF IsStr(probe.a) THEN StepsInOrder(probe.a.s) ELSE <<>>

\* C17: two artist names that differ only in curly versus straight
\* apostrophes normalize to the same string, and artistNamesMatch returns
\* true for them.
C17_CurlyMatchesStraight ==
  (pc = "compared" /\ IsStr(probe.a) /\ IsStr(probe.b)
     /\ CurlyToStraight(probe.a.s) = CurlyToStraight(probe.b.s)) =>
    ret.v = TRUE

\* The entry is a non-null record with a name field.
HasNameField(e) == e.t = "artist" /\ e.name.t /= "undefined"
\* The entry is a record whose name is neither missing nor empty (a falsy
\* value: undefined, null, the empty string, 0).
HasUsableName(e) ==
  /\ e.t = "artist"
  /\ e.name \notin {Undefined, Null, Str(<<>>), Num(0)}

\* C18 (as stated): createArtistNameSet skips every entry that has no name
\* field and every null entry, and returns exactly the set of
\* normalizeArtistName(name) over the remaining entries.
C18_AllNamedEntries ==
  pc = "collected" =>
    ret.v = {normalizeArtistName(probe.artists[i].name) :
               i \in {k \in DOMAIN probe.artists : HasNameField(probe.artists[k])}}

\* C18 (amended): createArtistNameSet skips every entry that is null or not
\* a record and every entry whose name is missing or empty, and returns
\* exactly the set of normalizeArtistName(name) over the remaining entries,
\* so names that collide after normalization contribute a single member.
C18_UsableNamedEntries ==
  pc = "collected" =>
    ret.v = {normalizeArtistName(probe.artists[i].name) :
               i \in {k \in DOMAIN probe.artists : HasUsableName(probe.artists[k])}}

\* C18 witness: "The National", a null entry and "NATIONAL" give the one
\* member "national".
C18_Witness ==
  /\ pc = "collected"
  /\ probe.artists = <<ArtistRec(Str(TheNational)), Null, ArtistRec(Str(NationalUpper))>>
  /\ ret.v = {<<"n", "a", "t", "i", "o", "n", "a", "l">>}

\* C28: createArtistNameSet never puts the empty string into the set,
\* whatever the names of its entries are (empty, white space only, not a
\* string), so no show is matched through an artists entry that normalizes
\* to the empty string.
C28_NoEmptyName ==
  pc = "collected" => <<>> \notin ret.v

\* C29: normalizeArtistName is idempotent: normalizing a normalized name
\* gives the same name, also for names that begin with a repeated "the" or
\* contain consecutive "&" separators.
C29_Idempotent ==
  pc = "renormalized" => ret.v = ret.once

(***************************************************************************)
(* validateShow, validateShows                                             *)
(***************************************************************************)
\* Array.isArray(v)
isArray(h, v) == IsRef(v) /\ h[v.ref].kind = "array"
\* show[field] for an object show: a show object has the four fields, any
\* other object has none of them.
showProp(h, show, field) ==
  IF h[show.ref].kind = "show" THEN h[show.ref][field] ELSE Undefined

\* The checks on show.artists.
artistsErrors(h, artists) ==
  IF ~isArray(h, artists) THEN <<"artists must be an array">>
  ELSE IF Len(h[artists.ref].elems) = 0 THEN <<"artists cannot be empty">>
  ELSE IF ~(\A i \in DOMAIN h[artists.ref].elems : IsStr(h[artists.ref].elems[i]))
  THEN <<"all artists must be strings">>
  ELSE <<>>
\* Variant that tests the string without trimming it.
isNonEmptyString_NoTrim(v) == IsStr(v) /\ Truthy(v)
\* !(typeof v !== 'string' || !v.trim())
isNonEmptyString(v) == IsStr(v) /\ Truthy(Str(trim(v.s)))
\* The check on one of show.venue, show.date, show.time.
fieldErrors(v, message) == IF isNonEmptyString(v) THEN <<>> ELSE <<message>>
\* return { valid: errors.length === 0, errors }
validateReport(errors) == [valid |-> Len(errors) = 0, errors |-> errors]
\* validateShow(show)
validateShow(h, show) ==
  IF ~Truthy(show) \/ ~IsRef(show)
  THEN [valid |-> FALSE, errors |-> <<"Show must be an object">>]
  ELSE validateReport(
         artistsErrors(h, showProp(h, show, "artists"))
           \o fieldErrors(showProp(h, show, "venue"), "venue must be a non-empty string")
           \o fieldErrors(showProp(h, show, "date"), "date must be a non-empty string")
           \o fieldErrors(showProp(h, show, "time"), "time must be a non-empty string"))

RECURSIVE validateFrom(_, _, _, _, _)
\* The loop of validateShows from element i (1-based here, the message holds
\* the 0-based index), validShows being the elements pushed so far.
validateFrom(h, elems, strict, i, validShows) ==
  IF i > Len(elems)
  THEN [k |-> "return", h |-> Alloc(h, ArrayObj(validShows)), r |-> Ref(NewAddr(h))]
  ELSE IF validateShow(h, elems[i]).valid
  THEN validateFrom(h, elems, strict, i + 1, Append(validShows, elems[i]))
  ELSE IF strict
  THEN [k |-> "throw", h |-> h, error |-> "Invalid show at index", index |-> i - 1,
        errors |-> validateShow(h, elems[i]).errors]
  ELSE validateFrom(h, elems, strict, i + 1, validShows)
\* Variant that takes a non-array input for an empty array.
validateShows_EmptyForNonArray(h, shows, strict) ==
  IF ~isArray(h, shows) THEN validateFrom(h, <<>>, strict, 1, <<>>)
  ELSE validateFrom(h, h[shows.ref].elems, strict, 1, <<>>)
\* validateShows(shows, { strict })
validateShows(h, shows, strict) ==
  IF ~isArray(h, shows) THEN [k |-> "throw", h |-> h, error |-> "Shows must be an array"]
  ELSE validateFrom(h, h[shows.ref].elems, strict, 1, <<>>)

(***************************************************************************)
(* Inputs and actions of the validation specification                      *)
(***************************************************************************)
\* Longest array validated.
MaxValidated == 3
Blank == <<" ", " ">>
VenueA == <<"V", "e", "n", "u", "e", " ", "A">>
VenueB == <<" ", "B", " ">>
\* Elements tried: two valid shows, values that are not objects, an array,
\* and shows whose artists, venue, date or time fail a check.
ValidateCands ==
  << [obj |-> TRUE, arr |-> TRUE, artists |-> <<Str(BandName)>>,
      venue |-> Str(VenueA), date |-> Str(FmtUS(0)), time |-> Str(T0800PM)],
     [obj |-> TRUE, arr |-> TRUE, artists |-> <<Str(BandName), Str(OtherBand)>>,
      venue |-> Str(VenueB), date |-> Str(Feb30), time |-> Str(T700PM)],
     [obj |-> FALSE, v |-> Null],
     [obj |-> FALSE, v |-> Undefined],
     [obj |-> FALSE, v |-> Num(5)],
     [obj |-> FALSE, v |-> Str(BandName)],
     [obj |-> TRUE, arr |-> FALSE, artists |-> Undefined,
      venue |-> Str(VenueA), date |-> Str(FmtUS(0)), time |-> Str(T0800PM)],
     [obj |-> TRUE, arr |-> FALSE, artists |-> Str(BandName),
      venue |-> Str(VenueA), date |-> Str(FmtUS(0)), time |-> Str(T0800PM)],
     [obj |-> TRUE, arr |-> TRUE, artists |-> <<>>,
      venue |-> Str(VenueA), date |-> Str(FmtUS(0)), time |-> Str(T0800PM)],
     [obj |-> TRUE, arr |-> TRUE, artists |-> <<Str(BandName), Num(5)>>,
      venue |-> Str(VenueA), date |-> Str(FmtUS(0)), time |-> Str(T0800PM)],
     [obj |-> TRUE, arr |-> TRUE, artists |-> <<Str(BandName)>>,
      venue |-> Str(Blank), date |-> Str(FmtUS(0)), time |-> Str(T0800PM)],
     [obj |-> TRUE, arr |-> TRUE, artists |-> <<Str(BandName)>>,
      venue |-> Str(VenueA), date |-> Num(20260210), time |-> Str(T0800PM)],
     [obj |-> TRUE, arr |-> TRUE, artists |-> <<Str(BandName)>>,
      venue |-> Str(VenueA), date |-> Str(FmtUS(0)), time |-> Str(<<>>)],
     [obj |-> TRUE, arr |-> TRUE, artists |-> <<Str(BandName)>>,
      venue |-> Undefined, date |-> Undefined, time |-> Undefined] >>
RECURSIVE buildValidateShows(_, _, _, _)
\* The heap with the array of the chosen elements; an element that is an
\* object is a show, its artists array allocated just before it.
buildValidateShows(h, elems, choice, i) ==
  IF i > Len(choice) THEN [h |-> Alloc(h, ArrayObj(elems)), r |-> NewAddr(h)]
  ELSE IF ~ValidateCands[choice[i]].obj
  THEN buildValidateShows(h, Append(elems, ValidateCands[choice[i]].v), choice, i + 1)
  ELSE buildValidateShows(
         Alloc(Alloc(h, candArtistsObj(ValidateCands[choice[i]])),
               ShowObj(candArtists(ValidateCands[choice[i]], NewAddr(h)),
                       ValidateCands[choice[i]].venue, ValidateCands[choice[i]].date,
                       ValidateCands[choice[i]].time)),
         Append(elems, Ref(NewAddr(h) + 1)), choice, i + 1)
\* Top-level inputs that are not arrays; Ref(1) is a show object.
NonArrayInputs == {Undefined, Null, Num(0), Str(BandName), Ref(1)}
\* The options argument: omitted, {}, { strict: false }, { strict: true }.
ValidateOptions == {"omitted", "empty", "lenient", "strict"}
\* { strict = false } = {}
strictOf(options) == options = "strict"

InitValidate ==
  /\ \E n \in 0..MaxValidated : \E choice \in [1..n -> 1..Len(ValidateCands)] :
       SetInputs(buildValidateShows(
                   <<ShowObj(Undefined, Str(VenueA), Str(FmtUS(0)), Str(T0800PM))>>,
                   <<>>, choice, 1))
  /\ \E v \in {Ref(showsIn)} \cup
              (IF Len(heap[showsIn].elems) = 0 THEN NonArrayInputs ELSE {}),
        o \in ValidateOptions :
       probe = [shows |-> v, options |-> o]
  /\ refDate = 0
  /\ pc = "validate"
  /\ ret = NoRet

SetValidated(r) ==
  /\ heap' = r.h
  /\ ret' = IF r.k = "throw"
            THEN [k |-> "throw", error |-> r.error,
                  index |-> IF r.error = "Invalid show at index" THEN r.index ELSE -1]
            ELSE [k |-> "valid", arr |-> r.r.ref]
  /\ pc' = IF r.k = "throw" THEN "threw" ELSE "validated"
\* const validShows = validateShows(shows, options);
CallValidateShows ==
  /\ pc = "validate"
  /\ SetValidated(validateShows(heap, probe.shows, strictOf(probe.options)))
  /\ UNCHANGED <<heap0, refDate, showsIn, probe>>

\* const { valid, errors } = validateShow(shows[j]);
CallValidateShow ==
  /\ pc = "validate"
  /\ isArray(heap, probe.shows)
  /\ \E j \in DOMAIN heap[showsIn].elems :
       ret' = [k |-> "report", index |-> j,
               valid |-> validateShow(heap, heap[showsIn].elems[j]).valid,
               errors |-> validateShow(heap, heap[showsIn].elems[j]).errors]
  /\ pc' = "reported"
  /\ UNCHANGED <<heap, heap0, refDate, showsIn, probe>>

NextValidate == CallValidateShows \/ CallValidateShow

SpecValidate == InitValidate /\ [][NextValidate]_vars

(***************************************************************************)
(* Claims about validateShow and validateShows (checked under SpecValidate)*)
(***************************************************************************)
\* A string with at least one character that is not white space.
IsNonBlankString(v) == IsStr(v) /\ \E i \in DOMAIN v.s : ~IsSpace(v.s[i])
\* The input element v is a non-null object with a non-empty artists array
\* of strings and non-blank string venue, date and time.
IsValidElem(v) ==
  /\ IsRef(v)
  /\ heap0[v.ref].kind = "show"
  /\ IsRef(heap0[v.ref].artists)
  /\ heap0[heap0[v.ref].artists.ref].kind = "array"
  /\ heap0[heap0[v.ref].artists.ref].elems /= <<>>
  /\ \A i \in DOMAIN heap0[heap0[v.ref].artists.ref].elems :
       IsStr(heap0[heap0[v.ref].artists.ref].elems[i])
  /\ IsNonBlankString(heap0[v.ref].venue)
  /\ IsNonBlankString(heap0[v.ref].date)
  /\ IsNonBlankString(heap0[v.ref].time)
ArrayGiven == IsRef(probe.shows) /\ heap0[probe.shows.ref].kind = "array"
StrictGiven == probe.options = "strict"

\* C21: in non-strict mode validateShows, given any array, does not throw
\* and returns exactly the elements that are valid shows (the elements
\* validateShow reports valid), as the same objects, in their input order,
\* leaving every input object as it was.
C21_KeepsExactlyValid ==
  /\ (pc = "reported" => ret.valid = IsValidElem(InputElems[ret.index]))
  /\ (pc \in {"validated", "threw"} /\ ArrayGiven /\ ~StrictGiven =>
        /\ ret.k = "valid"
        /\ heap[ret.arr].elems = SelectSeq(InputElems, IsValidElem)
        /\ ret.arr /= showsIn
        /\ SubSeq(heap, 1, Len(heap0)) = heap0)

\* Two of three elements are kept, around one that is dropped.
C21_Witness ==
  /\ pc = "validated"
  /\ ~StrictGiven
  /\ Len(InputElems) = 3
  /\ ~IsValidElem(InputElems[2])
  /\ heap[ret.arr].elems = <<InputElems[1], InputElems[3]>>
  /\ InputElems[1] /= InputElems[3]

\* The 0-based indexes of the invalid input elements.
InvalidIndexes == {i - 1 : i \in {j \in DOMAIN InputElems : ~IsValidElem(InputElems[j])}}
\* C22: validateShows throws 'Shows must be an array' for every input that
\* is not an array, whatever the strict option; given an array it throws in
\* non-strict mode never, and in strict mode exactly when some element is
\* invalid, naming the lowest index of an invalid element.
C22_ThrowsOnlyStructural ==
  pc \in {"validated", "threw"} =>
    IF ~ArrayGiven THEN ret.k = "throw" /\ ret.error = "Shows must be an array"
    ELSE IF ~StrictGiven \/ InvalidIndexes = {} THEN ret.k = "valid"
    ELSE /\ ret.k = "throw"
         /\ ret.error = "Invalid show at index"
         /\ ret.index \in InvalidIndexes
         /\ \A i \in InvalidIndexes : ret.index <= i

\* Strict mode names index 1: the first element is valid, the second and the
\* third are not.
C22_Witness ==
  /\ pc = "threw"
  /\ ArrayGiven
  /\ StrictGiven
  /\ InvalidIndexes = {1, 2}
  /\ ret.index = 1

(***************************************************************************)
(* getCurrentWeekShows, getWeekShowsByOffset and the calendar navigation   *)
(***************************************************************************)
\* return organizeShowsByWeek(shows, new Date()); now is the time new Date()
\* reads from the clock.
getCurrentWeekShows(h, shows, now) ==
  organizeShowsByWeek(Alloc(h, now), shows, NewAddr(h))
\* Variant that moves the reference date by weekOffset days.
getWeekShowsByOffset_Days(h, shows, weekOffset, now) ==
  organizeShowsByWeek(Alloc(h, setDate(now, getDate(now) + weekOffset)),
                      shows, NewAddr(h))
\* const refDate = new Date();
\* refDate.setDate(refDate.getDate() + weekOffset * 7);
\* return organizeShowsByWeek(shows, refDate);
getWeekShowsByOffset(h, shows, weekOffset, now) ==
  organizeShowsByWeek(Store(Alloc(h, now), NewAddr(h),
                            setDate(now, getDate(now) + weekOffset * 7)),
                      shows, NewAddr(h))
\* What the caller reads from a result: the two dates and, for every day,
\* its label, date and the shows filed under it.
weekData(r) ==
  IF r.k = "throw" THEN [k |-> "throw", error |-> r.error]
  ELSE [k |-> "schedule",
        weekStartDate |-> r.h[r.weekStartDate],
        weekEndDate |-> r.h[r.weekEndDate],
        days |-> [n \in DOMAIN r.days |->
                    [label |-> r.days[n].label, date |-> r.days[n].date,
                     shows |-> [j \in DOMAIN r.days[n].shows |->
                                  r.h[r.days[n].shows[j].ref]]]]]

(***************************************************************************)
(* Inputs and actions of the week-offset specification                     *)
(***************************************************************************)
\* Largest week offset the navigation reaches, in either direction.
MaxOffset == 3
\* Longest shows array of the calendar.
MaxOffsetShows == 2
\* state.calendarWeekOffset
calendarWeekOffset == probe.calendarWeekOffset

InitOffset ==
  /\ \E day \in OrgDays, ms \in OrgMs :
       /\ \E n \in 0..MaxOffsetShows : \E choice \in [1..n -> 1..Len(Cands)] :
            SetInputs(buildShows(<<>>, <<>>, choice, 1, day))
       /\ probe = [now |-> DateObj(day, ms), calendarWeekOffset |-> 0]
  /\ refDate = 0
  /\ pc = "calendar"
  /\ ret = [k |-> "weeks", current |-> NoRet, shown |-> NoRet]

\* const week = getCurrentWeekShows(shows);
CallCurrentWeek ==
  /\ ret.current = NoRet
  /\ ret' = [ret EXCEPT !.current = weekData(getCurrentWeekShows(heap, showsIn, probe.now))]
  /\ UNCHANGED <<heap, heap0, refDate, showsIn, pc, probe>>

\* const weekData = WeeklyShows.getWeekByOffset(state.calendarMatches, offset);
SetShown(offset) ==
  /\ probe' = [probe EXCEPT !.calendarWeekOffset = offset]
  /\ ret' = [ret EXCEPT !.shown = weekData(getWeekShowsByOffset(heap, showsIn, offset, probe.now))]
  /\ UNCHANGED <<heap, heap0, refDate, showsIn, pc>>
\* updateCalendarView(), as renderCalendar calls it
updateCalendarView ==
  /\ ret.shown = NoRet
  /\ SetShown(calendarWeekOffset)
\* state.calendarWeekOffset--; updateCalendarView();
calendarPrevWeek ==
  /\ calendarWeekOffset > 0 - MaxOffset
  /\ SetShown(calendarWeekOffset - 1)
\* state.calendarWeekOffset++; updateCalendarView();
calendarNextWeek ==
  /\ calendarWeekOffset < MaxOffset
  /\ SetShown(calendarWeekOffset + 1)

NextOffset ==
  CallCurrentWeek \/ updateCalendarView \/ calendarPrevWeek \/ calendarNextWeek

SpecOffset == InitOffset /\ [][NextOffset]_vars

(***************************************************************************)
(* Claims about getWeekShowsByOffset (checked under SpecOffset)            *)
(***************************************************************************)
\* organizeShowsByWeek(shows, now + 7n days), n the offset shown.
OrganizedAtOffset ==
  weekData(organizeShowsByWeek(
             Alloc(heap0, DateObj(probe.now.day + 7 * calendarWeekOffset, probe.now.ms)),
             showsIn, NewAddr(heap0)))

\* C23: for every offset n and current time, getWeekShowsByOffset(shows, n)
\* equals organizeShowsByWeek(shows, now + 7n days), and its weekStartDate is
\* exactly 7n calendar days from the weekStartDate of
\* getCurrentWeekShows(shows); the week shown depends on the offset alone,
\* so a step of +1 followed by -1 shows the same week again.
C23_OffsetShiftsWeeks ==
  ret.shown /= NoRet =>
    /\ ret.shown = OrganizedAtOffset
    /\ ret.current /= NoRet =>
         /\ ret.current.k = ret.shown.k
         /\ ret.shown.k = "schedule" =>
              /\ ret.shown.weekStartDate.day
                   = ret.current.weekStartDate.day + 7 * calendarWeekOffset
              /\ ret.shown.weekStartDate.ms = ret.current.weekStartDate.ms
              /\ calendarWeekOffset = 0 => ret.shown = ret.current

\* The week before the current one is shown, with the show dated a week
\* ago in it.
C23_Witness ==
  /\ calendarWeekOffset = 0 - 1
  /\ ret.current /= NoRet
  /\ ret.shown.k = "schedule"
  /\ \E n \in DOMAIN ret.shown.days : ret.shown.days[n].shows /= <<>>
  /\ ret.shown.weekStartDate.day = ret.current.weekStartDate.day - 7

(***************************************************************************)
(* The show service: getUpcomingShows, clearCache, refreshShows            *)
(***************************************************************************)
\* The module-level variables of the show service, held in one object.
ShowsModule(cached, timestamp) ==
  [kind |-> "module", cachedShows |-> cached, cacheTimestamp |-> timestamp]
cachedShows == heap[1].cachedShows
cacheTimestamp == heap[1].cacheTimestamp
CACHE_TTL_MS == 5 * 60 * 1000

\* Variant that still takes the cache for valid at the end of its lifetime.
cacheIsValid_AtExpiry(m, now) ==
  /\ Truthy(m.cachedShows)
  /\ Truthy(m.cacheTimestamp)
  /\ now - m.cacheTimestamp.n <= CACHE_TTL_MS
\* cachedShows && cacheTimestamp && (Date.now() - cacheTimestamp < CACHE_TTL_MS)
cacheIsValid(m, now) ==
  /\ Truthy(m.cachedShows)
  /\ Truthy(m.cacheTimestamp)
  /\ now - m.cacheTimestamp.n < CACHE_TTL_MS
\* clearCache()
clearCache(m) == ShowsModule(Null, Null)

\* A value read from a source: an array of the chosen elements, wrapped
\* wrap times in { name: ... } objects, or an object that is not an array.
SourceData(array, wrap, choice) ==
  [t |-> "object", array |-> array, wrap |-> wrap, choice |-> choice]
\* shows[0]?.name?.artists for data wrapped once; shows[0]?.name?.name?.artists
\* for data wrapped twice.
firstIsNested(shows, depth) ==
  shows.array /\ Len(shows.choice) > 0 /\ shows.wrap = depth
\* shows = shows.map(s => s.name) / shows.map(s => s.name.name)
unwrapNested(shows, depth) ==
  IF firstIsNested(shows, depth) THEN [shows EXCEPT !.wrap = 0] ELSE shows
\* What loadFromRemote returns for a settled request.
remoteShows(outcome) ==
  IF outcome.k = "error" THEN Null
  ELSE IF outcome.k = "null" THEN Null
  ELSE unwrapNested(unwrapNested(outcome.data, 1), 2)
\* What loadFromLocalFile returns for a settled readFile.
localShows(outcome) ==
  IF outcome.k = "content" /\ outcome.data.array THEN outcome.data ELSE Null

\* The objects of a value read from a source, as JSON.parse builds them.
parsedHeap(shows) ==
  IF shows.array THEN buildValidateShows(<<>>, <<>>, shows.choice, 1)
  ELSE [h |-> <<ShowObj(Undefined, Undefined, Undefined, Undefined)>>, r |-> 1]
validateParsed(b) == validateShows(b.h, Ref(b.r), FALSE)
\* The array validateShows returned to load number id, with its shows.
LoadedShows(id, r) ==
  [t |-> "object", load |-> id,
   elems |-> [j \in DOMAIN r.h[r.r.ref].elems |-> r.h[r.h[r.r.ref].elems[j].ref]]]
\* const validShows = validateShows(shows); cachedShows = validShows;
\* cacheTimestamp = Date.now(); return validShows;
cacheValidated(m, r, now, id) ==
  IF r.k = "throw" THEN [m |-> m, k |-> "throw", error |-> r.error]
  ELSE [m |-> ShowsModule(LoadedShows(id, r), Num(now)), k |-> "return",
        v |-> LoadedShows(id, r)]
\* getUpcomingShows from  if (!shows) throw ...  to its return.
finishLoad(m, shows, now, id) ==
  IF ~Truthy(shows)
  THEN [m |-> m, k |-> "throw", error |-> "Failed to load shows from any source"]
  ELSE cacheValidated(m, validateParsed(parsedHeap(shows)), now, id)

(***************************************************************************)
(* Inputs and actions of the show-cache specifications                     *)
(***************************************************************************)
\* Clock ticks of a behaviour; a tick is a third of the cache lifetime.
MaxTicks == 4
TickMs == CACHE_TTL_MS \div 3
ClockStart == 10 * TickMs
\* Loads from source started in a behaviour.
MaxLoads == 3
\* Callers of the cache specification and of the concurrent-loads one.
MaxCacheCallers == 2
MaxCallers == 3
\* Arrays a source holds, as positions in ValidateCands: an empty array, and
\* a valid show followed by a show with a blank venue.
Contents == {<<>>, <<1, 11>>}
\* How a readFile settles: it fails, or yields the parsed content.
LocalOutcomes ==
  {[k |-> "error"]}
    \cup {[k |-> "content", data |-> SourceData(TRUE, 0, c)] : c \in Contents}
    \cup {[k |-> "content", data |-> SourceData(FALSE, 0, <<>>)]}
\* How the remote request settles: it fails, or its response data is null,
\* an array (flat or in a legacy nested format), or some other object.
RemoteOutcomes ==
  {[k |-> "error"], [k |-> "null"]}
    \cup {[k |-> "data", data |-> SourceData(TRUE, w, c)] :
            w \in 0..2, c \in Contents \ {<<>>}}
    \cup {[k |-> "data", data |-> SourceData(TRUE, 0, <<>>)],
          [k |-> "data", data |-> SourceData(FALSE, 0, <<>>)]}

\* What is recorded of a call: the number of the load it started (0 for
\* none), whether a successful load was less than CACHE_TTL_MS old, with no
\* clearCache since, when the call was made, the array that load had cached,
\* the sources the call has read, and the module before and after the step
\* that ended the call.
NoCall ==
  [load |-> 0, fresh |-> FALSE, seen |-> Null, readLocal |-> FALSE,
   readRemote |-> FALSE, before |-> Null, after |-> Null]
\* A successful load is recorded in pr, less than CACHE_TTL_MS old.
FreshIn(pr) == pr.loadedAt /= Null /\ pr.now < pr.loadedAt.n + CACHE_TTL_MS
\* The record pr after a clearCache.
ClearedIn(pr) ==
  [pr EXCEPT !.loadedAt = Null, !.loaded = Null, !.newest = 0, !.cleared = pr.started]

InitShows(callers) ==
  /\ heap = <<ShowsModule(Null, Null)>>
  /\ heap0 = <<>>
  /\ refDate = 0
  /\ showsIn = 0
  /\ pc = [p \in callers |-> "idle"]
  /\ ret = [p \in callers |-> NoRet]
  /\ \E url \in BOOLEAN :
       probe = [now |-> ClockStart, remoteUrl |-> url, started |-> 0,
                loadedAt |-> Null, loaded |-> Null, newest |-> 0,
                cleared |-> 0, calls |-> [p \in callers |-> NoCall]]

\* return cachedShows;
ReturnCached(p, m, pr) ==
  /\ heap' = <<m>>
  /\ pc' = [pc EXCEPT ![p] = "returned"]
  /\ ret' = [ret EXCEPT ![p] = [k |-> "return", v |-> m.cachedShows]]
  /\ probe' = [pr EXCEPT !.calls[p] =
                 [NoCall EXCEPT !.fresh = FreshIn(pr), !.seen = pr.loaded]]
\* shows = await loadFromLocalFile(), up to await fs.promises.access(...)
StartLoad(p, m, pr) ==
  /\ pr.started < MaxLoads
  /\ heap' = <<m>>
  /\ pc' = [pc EXCEPT ![p] = "access"]
  /\ probe' = [pr EXCEPT !.started = @ + 1,
                         !.calls[p] = [NoCall EXCEPT !.load = pr.started + 1,
                                                     !.fresh = FreshIn(pr),
                                                     !.seen = pr.loaded,
                                                     !.readLocal = TRUE]]
  /\ UNCHANGED ret
\* getUpcomingShows() on the module m, up to its first await
getUpcomingShowsIn(p, m, pr) ==
  IF cacheIsValid(m, pr.now) THEN ReturnCached(p, m, pr) ELSE StartLoad(p, m, pr)

\* getUpcomingShows()
CallGetUpcomingShows(p) ==
  /\ pc[p] = "idle"
  /\ getUpcomingShowsIn(p, heap[1], probe)
  /\ UNCHANGED <<heap0, refDate, showsIn>>
\* refreshShows(): clearCache(); return getUpcomingShows();
CallRefreshShows(p) ==
  /\ pc[p] = "idle"
  /\ getUpcomingShowsIn(p, clearCache(heap[1]), ClearedIn(probe))
  /\ UNCHANGED <<heap0, refDate, showsIn>>
\* clearCache()
CallClearCache ==
  /\ heap[1] /= clearCache(heap[1])
  /\ heap' = <<clearCache(heap[1])>>
  /\ probe' = ClearedIn(probe)
  /\ UNCHANGED <<heap0, refDate, showsIn, pc, ret>>

\* The call of p ends with out, the outcome of finishLoad.
Settle(p, out) ==
  /\ heap' = <<out.m>>
  /\ pc' = [pc EXCEPT ![p] = IF out.k = "throw" THEN "threw" ELSE "returned"]
  /\ ret' = [ret EXCEPT ![p] = IF out.k = "throw"
                                THEN [k |-> "throw", error |-> out.error]
                                ELSE [k |-> "return", v |-> out.v]]
  /\ probe' = IF out.k = "throw"
              THEN [probe EXCEPT !.calls[p].before = heap[1],
                                 !.calls[p].after = out.m]
              ELSE [probe EXCEPT !.calls[p].before = heap[1],
                                 !.calls[p].after = out.m,
                                 !.loadedAt = Num(probe.now),
                                 !.loaded = out.v,
                                 !.newest = IF out.v.load > @ THEN out.v.load ELSE @]
\* if (!shows) shows = await loadFromRemote(): without a remote URL
\* loadFromRemote returns null at once, with one the request is sent.
FallBackToRemote(p) ==
  IF probe.remoteUrl
  THEN /\ pc' = [pc EXCEPT ![p] = "remote"]
       /\ probe' = [probe EXCEPT !.calls[p].readRemote = TRUE]
       /\ UNCHANGED <<heap, ret>>
  ELSE Settle(p, finishLoad(heap[1], Null, probe.now, probe.calls[p].load))

\* await fs.promises.access(localPath, fs.constants.R_OK) settles
AccessSettles(p) ==
  /\ pc[p] = "access"
  /\ \/ /\ pc' = [pc EXCEPT ![p] = "read"]
        /\ UNCHANGED <<heap, ret, probe>>
     \/ FallBackToRemote(p)
  /\ UNCHANGED <<heap0, refDate, showsIn>>
\* await fs.promises.readFile(localPath, 'utf-8') settles
ReadFileSettles(p) ==
  /\ pc[p] = "read"
  /\ \E o \in LocalOutcomes :
       IF Truthy(localShows(o))
       THEN Settle(p, finishLoad(heap[1], localShows(o), probe.now, probe.calls[p].load))
       ELSE FallBackToRemote(p)
  /\ UNCHANGED <<heap0, refDate, showsIn>>
\* await axios.get(config.shows.remoteUrl, ...) settles
RemoteSettles(p) ==
  /\ pc[p] = "remote"
  /\ \E o \in RemoteOutcomes :
       Settle(p, finishLoad(heap[1], remoteShows(o), probe.now, probe.calls[p].load))
  /\ UNCHANGED <<heap0, refDate, showsIn>>
\* The caller has its result and may call again.
TakeResult(p) ==
  /\ pc[p] \in {"returned", "threw"}
  /\ pc' = [pc EXCEPT ![p] = "idle"]
  /\ ret' = [ret EXCEPT ![p] = NoRet]
  /\ probe' = [probe EXCEPT !.calls[p] = NoCall]
  /\ UNCHANGED <<heap, heap0, refDate, showsIn>>
\* Time passes.
Tick ==
  /\ probe.now < ClockStart + MaxTicks * TickMs
  /\ probe' = [probe EXCEPT !.now = @ + TickMs]
  /\ UNCHANGED <<heap, heap0, refDate, showsIn, pc, ret>>

InitCache == InitShows(1..MaxCacheCallers)
NextCache ==
  \/ \E p \in DOMAIN pc : CallGetUpcomingShows(p)
  \/ \E p \in DOMAIN pc : CallRefreshShows(p)
  \/ \E p \in DOMAIN pc : AccessSettles(p)
  \/ \E p \in DOMAIN pc : ReadFileSettles(p)
  \/ \E p \in DOMAIN pc : RemoteSettles(p)
  \/ \E p \in DOMAIN pc : TakeResult(p)
  \/ CallClearCache
  \/ Tick
SpecCache == InitCache /\ [][NextCache]_vars

InitLoads == InitShows(1..MaxCallers)
NextLoads ==
  \/ \E p \in DOMAIN pc : CallGetUpcomingShows(p)
  \/ \E p \in DOMAIN pc : CallRefreshShows(p)
  \/ \E p \in DOMAIN pc : AccessSettles(p)
  \/ \E p \in DOMAIN pc : ReadFileSettles(p)
  \/ \E p \in DOMAIN pc : RemoteSettles(p)
  \/ CallClearCache
SpecLoads == InitLoads /\ [][NextLoads]_vars

(***************************************************************************)
(* Claims about the show cache (checked under SpecCache and SpecLoads)     *)
(***************************************************************************)
CallEnded(p) == pc[p] \in {"returned", "threw"}
\* Every show of the array is a validated one.
AllValidated(arr) ==
  \A j \in DOMAIN arr.elems :
    /\ IsStr(arr.elems[j].venue)
    /\ \E i \in DOMAIN arr.elems[j].venue.s : ~IsSpace(arr.elems[j].venue.s[i])

\* C24: a getUpcomingShows call made less than 5 minutes after a successful
\* load, with no clearCache or refreshShows in between, returns the array
\* that load cached without reading the local file or the remote URL; a call
\* made at or after 5 minutes, or with a clearCache or refreshShows since
\* the last successful load, loads from source again and, when it succeeds,
\* caches and returns the validated array it loaded; a call that throws
\* leaves cachedShows and cacheTimestamp as they were.
C24_CacheLifetime ==
  \A p \in DOMAIN pc :
    /\ pc[p] \in {"access", "read", "remote"} => ~probe.calls[p].fresh
    /\ CallEnded(p) /\ probe.calls[p].fresh =>
         /\ ret[p] = [k |-> "return", v |-> probe.calls[p].seen]
         /\ ~probe.calls[p].readLocal
         /\ ~probe.calls[p].readRemote
    /\ CallEnded(p) /\ ~probe.calls[p].fresh =>
         /\ probe.calls[p].readLocal
         /\ ret[p].k = "return" =>
              /\ ret[p].v.load = probe.calls[p].load
              /\ AllValidated(ret[p].v)
              /\ probe.calls[p].after.cachedShows = ret[p].v
              /\ probe.calls[p].after.cacheTimestamp /= Null
    /\ pc[p] = "threw" => probe.calls[p].after = probe.calls[p].before

\* A call made two ticks after the load is answered from the cache.
C24_Witness ==
  \E p \in DOMAIN pc :
    /\ pc[p] = "returned"
    /\ probe.calls[p].fresh
    /\ probe.loadedAt /= Null
    /\ probe.now = probe.loadedAt.n + 2 * TickMs
    /\ ret[p].v.elems /= <<>>

\* C27: with several loads in flight, a load that started earlier never
\* overwrites the cache entry written by a load that started later, and once
\* all calls have completed, the load started last having returned with no
\* clearCache after its start, the cache holds the array of that load.
C27_NewestLoadWins ==
  /\ cachedShows /= Null => cachedShows.load >= probe.newest
  /\ (/\ \A p \in DOMAIN pc : pc[p] \notin {"access", "read", "remote"}
      /\ probe.started > probe.cleared
      /\ \E p \in DOMAIN pc :
           probe.calls[p].load = probe.started /\ pc[p] = "returned")
       => (cachedShows /= Null /\ cachedShows.load = probe.started)

(***************************************************************************)
(* apiRequest                                                              *)
(***************************************************************************)
maxRetries == 3
\* How an HTTP attempt settles: a response with data, or an error whose
\* response, if any, has a status and may have a retry-after header.
ApiOk(data) == [k |-> "ok", data |-> data]
ApiError(status, header) == [k |-> "error", status |-> status, retryAfter |-> header]
\* Variant that also retries after the last attempt.
shouldRetry_EveryAttempt(error, attempt) ==
  error.status = Num(429) /\ attempt <= maxRetries
\* error.response?.status === 429 && attempt < maxRetries
shouldRetry(error, attempt) ==
  error.status = Num(429) /\ attempt < maxRetries
\* parseInt(error.response.headers['retry-after'] || '1', 10)
retryAfterOf(header) ==
  IF Truthy(header) THEN parseInt(header.s) ELSE parseInt(<<"1">>)

(***************************************************************************)
(* Inputs and actions of the API-request specification                     *)
(***************************************************************************)
\* Response data tried, and retry-after headers: none, "2", "0", "abc".
ApiData == {Str(<<"a">>), Str(<<"b">>)}
RetryHeaders == {Undefined, Str(<<"2">>), Str(<<"0">>), Str(<<"a", "b", "c">>)}
\* Outcomes of an attempt: a response with data, status 429 with each
\* header, status 401 or 500, and an error without a response.
ApiOutcomes ==
  {ApiOk(d) : d \in ApiData}
    \cup {ApiError(Num(429), h) : h \in RetryHeaders}
    \cup {ApiError(Num(401), Undefined), ApiError(Num(500), Undefined),
          ApiError(Undefined, Undefined)}

InitApi ==
  /\ heap = <<>>
  /\ heap0 = <<>>
  /\ refDate = 0
  /\ showsIn = 0
  /\ pc = "call"
  /\ ret = NoRet
  /\ probe = [attempt |-> 0, sent |-> 0, log |-> <<>>, retryAfter |-> NaN]

\* apiRequest(endpoint, accessToken), up to the await of the first attempt
CallApiRequest ==
  /\ pc = "call"
  /\ pc' = "request"
  /\ probe' = [probe EXCEPT !.attempt = 1, !.sent = 1]
  /\ UNCHANGED <<heap, heap0, refDate, showsIn, ret>>

\* return response.data;
ReturnData(outcome) ==
  /\ pc' = "returned"
  /\ ret' = [k |-> "return", v |-> outcome.data]
  /\ probe' = [probe EXCEPT !.log = Append(@, outcome)]
\* The catch block: wait and continue, or throw error.
CatchError(error) ==
  IF shouldRetry(error, probe.attempt)
  THEN /\ pc' = "wait"
       /\ probe' = [probe EXCEPT !.log = Append(@, error),
                                 !.retryAfter = retryAfterOf(error.retryAfter)]
       /\ UNCHANGED ret
  ELSE /\ pc' = "threw"
       /\ ret' = [k |-> "throw", error |-> error]
       /\ probe' = [probe EXCEPT !.log = Append(@, error)]
\* await axios({ url, ... }) settles
AttemptSettles ==
  /\ pc = "request"
  /\ \E outcome \in ApiOutcomes :
       IF outcome.k = "ok" THEN ReturnData(outcome) ELSE CatchError(outcome)
  /\ UNCHANGED <<heap, heap0, refDate, showsIn>>
\* The timer of the wait fires: continue; attempt++; attempt <= maxRetries
\* starts the next attempt, otherwise the function ends without a value.
TimerFires ==
  /\ pc = "wait"
  /\ IF probe.attempt + 1 <= maxRetries
     THEN /\ pc' = "request"
          /\ probe' = [probe EXCEPT !.attempt = @ + 1, !.sent = @ + 1]
          /\ UNCHANGED ret
     ELSE /\ pc' = "returned"
          /\ probe' = [probe EXCEPT !.attempt = @ + 1]
          /\ ret' = [k |-> "return", v |-> Undefined]
  /\ UNCHANGED <<heap, heap0, refDate, showsIn>>

NextApi == CallApiRequest \/ AttemptSettles \/ TimerFires

\* Every attempt settles and every timer fires.
SpecApi == InitApi /\ [][NextApi]_vars /\ WF_vars(NextApi)

(***************************************************************************)
(* Claims about apiRequest (checked under SpecApi)                         *)
(***************************************************************************)
IsRateLimited(outcome) == outcome.k = "error" /\ outcome.status = Num(429)
\* The outcomes of the attempts settled so far, and the last of them.
Attempts == probe.log
LastAttempt == probe.log[Len(probe.log)]
ApiAttemptsBounded ==
  /\ probe.sent <= 3
  /\ probe.sent = Len(Attempts) + (IF pc = "request" THEN 1 ELSE 0)
  /\ \A i \in DOMAIN Attempts : i < probe.sent => (IsRateLimited(Attempts[i]) /\ i <= 2)
  /\ pc = "wait" => (IsRateLimited(LastAttempt) /\ Len(Attempts) <= 2)
  /\ pc = "threw" =>
       /\ LastAttempt.k = "error"
       /\ ret = [k |-> "throw", error |-> LastAttempt]
       /\ IsRateLimited(LastAttempt) => Len(Attempts) = 3
  /\ pc = "returned" =>
       /\ LastAttempt.k = "ok"
       /\ ret = [k |-> "return", v |-> LastAttempt.data]

\* C25: apiRequest sends at most 3 HTTP attempts and then ends: a further
\* attempt follows only an attempt that failed with status 429, and only the
\* first or the second one; any other error is thrown at once, the 429 error
\* of the third attempt is thrown, and the data of the first successful
\* attempt is returned.
C25_AtMostThreeAttempts ==
  /\ []ApiAttemptsBounded
  /\ <>(pc \in {"returned", "threw"})

\* The third attempt was rate limited too and its error is thrown.
C25_Witness ==
  /\ pc = "threw"
  /\ Len(Attempts) = 3
  /\ IsRateLimited(LastAttempt)
  /\ probe.retryAfter = NaN

(***************************************************************************)
(* TokenStore and ensureValidToken                                         *)
(***************************************************************************)
\* An entry of the store's Map.
TokenEntry(accessToken, refreshToken, expiresAt) ==
  [t |-> "object", accessToken |-> accessToken, refreshToken |-> refreshToken,
   expiresAt |-> expiresAt]
\* The Map of the store: user ids to entries, undefined without one.
tokens == heap[1].tokens
\* set(userId, { accessToken, refreshToken, expiresIn })
tokenStoreSet(map, userId, accessToken, refreshToken, expiresIn, now) ==
  [map EXCEPT ![userId] = TokenEntry(accessToken, refreshToken, now + (expiresIn * 1000))]
\* get(userId): this.tokens.get(userId) || null
tokenStoreGet(map, userId) == IF Truthy(map[userId]) THEN map[userId] ELSE Null
\* Variant that stores the new token and keeps the old expiry.
updateAccessToken_KeepsExpiry(map, userId, accessToken, expiresIn, now) ==
  IF Truthy(map[userId]) THEN [map EXCEPT ![userId].accessToken = accessToken]
  ELSE map
\* updateAccessToken(userId, accessToken, expiresIn)
updateAccessToken(map, userId, accessToken, expiresIn, now) ==
  IF Truthy(map[userId])
  THEN [map EXCEPT ![userId].accessToken = accessToken,
                   ![userId].expiresAt = now + (expiresIn * 1000)]
  ELSE map
\* isExpired(userId)
isExpired(map, userId, now) ==
  IF ~Truthy(map[userId]) THEN TRUE ELSE now >= map[userId].expiresAt

(***************************************************************************)
(* Inputs and actions of the token specification                           *)
(***************************************************************************)
\* Seconds the clock advances in a behaviour, and concurrent callers.
MaxTokenTicks == 3
MaxTokenCallers == 2
UserIds == {"u1", "u2"}
\* Token lifetimes in seconds.
ExpiresIn == {1, 2}
\* How a refresh request settles: token data, a response without data, or
\* an error.
RefreshOutcomes ==
  {[k |-> "data", expires_in |-> e] : e \in ExpiresIn} \cup {[k |-> "nodata"], [k |-> "error"]}
\* The n-th access token the token endpoint issues.
IssuedToken(n) == Str(<<"t", DigitChars[n + 1]>>)
\* What is recorded of a call: its user, the entry found and the time when
\* it was made, whether a refresh request was sent, how it settled, and the
\* Map before and after the step that ended the call.
NoTokenCall ==
  [user |-> "", entry |-> Null, at |-> 0, sent |-> FALSE, outcome |-> Null,
   token |-> Null, before |-> Null, after |-> Null, ended |-> 0]

InitToken ==
  /\ \E e \in ExpiresIn :
       heap = <<[kind |-> "tokenStore",
                 tokens |-> [u \in UserIds |->
                               IF u = "u1"
                               THEN TokenEntry(IssuedToken(0), Str(<<"r">>), e * 1000)
                               ELSE Undefined]]>>
  /\ heap0 = <<>>
  /\ refDate = 0
  /\ showsIn = 0
  /\ pc = [p \in 1..MaxTokenCallers |-> "idle"]
  /\ ret = [p \in 1..MaxTokenCallers |-> NoRet]
  /\ probe = [now |-> 0, issued |-> 0,
              calls |-> [p \in 1..MaxTokenCallers |-> NoTokenCall]]

\* ensureValidToken(userId), up to its return, its throw or its await
CallEnsureValidToken(p) ==
  /\ pc[p] = "idle"
  /\ \E userId \in UserIds :
       /\ probe' = [probe EXCEPT !.calls[p] =
                      [NoTokenCall EXCEPT
                         !.user = userId,
                         !.entry = tokens[userId],
                         !.at = probe.now,
                         !.sent = Truthy(tokenStoreGet(tokens, userId))
                                    /\ isExpired(tokens, userId, probe.now),
                         !.before = tokens, !.after = tokens, !.ended = probe.now]]
       /\ IF ~Truthy(tokenStoreGet(tokens, userId))
          THEN /\ pc' = [pc EXCEPT ![p] = "threw"]
               /\ ret' = [ret EXCEPT ![p] = [k |-> "throw", error |-> "User not authenticated"]]
          ELSE IF isExpired(tokens, userId, probe.now)
          THEN /\ pc' = [pc EXCEPT ![p] = "refreshing"]
               /\ UNCHANGED ret
          ELSE /\ pc' = [pc EXCEPT ![p] = "returned"]
               /\ ret' = [ret EXCEPT ![p] =
                            [k |-> "return", v |-> tokenStoreGet(tokens, userId).accessToken]]
  /\ UNCHANGED <<heap, heap0, refDate, showsIn>>

\* tokenStore.updateAccessToken(userId, data.access_token, data.expires_in);
\* return data.access_token;
RefreshSucceeds(p, outcome, accessToken) ==
  /\ heap' = <<[heap[1] EXCEPT !.tokens =
                  updateAccessToken(tokens, probe.calls[p].user, accessToken,
                                    outcome.expires_in, probe.now)]>>
  /\ pc' = [pc EXCEPT ![p] = "returned"]
  /\ ret' = [ret EXCEPT ![p] = [k |-> "return", v |-> accessToken]]
  /\ probe' = [probe EXCEPT
                 !.issued = @ + 1,
                 !.calls[p].outcome = outcome,
                 !.calls[p].token = accessToken,
                 !.calls[p].before = tokens,
                 !.calls[p].after = updateAccessToken(tokens, probe.calls[p].user,
                                                      accessToken, outcome.expires_in,
                                                      probe.now),
                 !.calls[p].ended = probe.now]
\* catch (error) { throw new Error('Failed to refresh token'); }
RefreshFails(p, outcome) ==
  /\ pc' = [pc EXCEPT ![p] = "threw"]
  /\ ret' = [ret EXCEPT ![p] = [k |-> "throw", error |-> "Failed to refresh token"]]
  /\ probe' = [probe EXCEPT !.calls[p].outcome = outcome,
                            !.calls[p].before = tokens,
                            !.calls[p].after = tokens,
                            !.calls[p].ended = probe.now]
  /\ UNCHANGED heap
\* await refreshAccessToken(userToken.refreshToken) settles; reading
\* data.access_token of a response without data throws inside the try.
RefreshSettles(p) ==
  /\ pc[p] = "refreshing"
  /\ \E outcome \in RefreshOutcomes :
       IF outcome.k = "data"
       THEN RefreshSucceeds(p, outcome, IssuedToken(probe.issued + 1))
       ELSE RefreshFails(p, outcome)
  /\ UNCHANGED <<heap0, refDate, showsIn>>
\* The OAuth callback stores the tokens of a new session.
AuthCallback ==
  /\ \E userId \in UserIds, e \in ExpiresIn :
       /\ ~Truthy(tokens[userId])
       /\ heap' = <<[heap[1] EXCEPT !.tokens =
                       tokenStoreSet(tokens, userId, Str(<<"a">>), Str(<<"r">>), e,
                                     probe.now)]>>
  /\ UNCHANGED <<heap0, refDate, showsIn, pc, ret, probe>>
\* A second passes.
TokenClockTick ==
  /\ probe.now < MaxTokenTicks * 1000
  /\ probe' = [probe EXCEPT !.now = @ + 1000]
  /\ UNCHANGED <<heap, heap0, refDate, showsIn, pc, ret>>

NextToken ==
  \/ \E p \in DOMAIN pc : CallEnsureValidToken(p)
  \/ \E p \in DOMAIN pc : RefreshSettles(p)
  \/ AuthCallback
  \/ TokenClockTick
SpecToken == InitToken /\ [][NextToken]_vars

(***************************************************************************)
(* Claims about ensureValidToken (checked under SpecToken)                 *)
(***************************************************************************)
TokenCall(p) == probe.calls[p]
\* The call found an entry, and that entry was unexpired: now < expiresAt.
HadEntry(p) == TokenCall(p).entry /= Undefined
WasUnexpired(p) == HadEntry(p) /\ TokenCall(p).at < TokenCall(p).entry.expiresAt
StoredAfter(p) == TokenCall(p).after[TokenCall(p).user]
StoredBefore(p) == TokenCall(p).before[TokenCall(p).user]

\* C26: without an entry ensureValidToken throws 'User not authenticated'
\* and sends no refresh request; with an unexpired entry, and only then, it
\* returns the stored access token without a refresh request; with an
\* expired entry it sends a refresh request and returns only the token of a
\* successful refresh, written to the store with the new expiry; when the
\* refresh fails it throws 'Failed to refresh token' and the stored
\* accessToken and expiresAt are as before.
C26_ValidTokenOrThrow ==
  \A p \in DOMAIN pc :
    pc[p] /= "idle" =>
      /\ ~HadEntry(p) =>
           /\ pc[p] = "threw"
           /\ ret[p].error = "User not authenticated"
           /\ ~TokenCall(p).sent
      /\ WasUnexpired(p) =>
           /\ pc[p] = "returned"
           /\ ret[p].v = TokenCall(p).entry.accessToken
           /\ ~TokenCall(p).sent
      /\ pc[p] = "returned" /\ ~TokenCall(p).sent => WasUnexpired(p)
      /\ HadEntry(p) /\ ~WasUnexpired(p) =>
           /\ TokenCall(p).sent
           /\ pc[p] = "returned" =>
                /\ TokenCall(p).outcome.k = "data"
                /\ ret[p].v = TokenCall(p).token
                /\ StoredAfter(p).accessToken = ret[p].v
                /\ StoredAfter(p).expiresAt
                     = TokenCall(p).ended + TokenCall(p).outcome.expires_in * 1000
           /\ pc[p] = "threw" =>
                /\ TokenCall(p).outcome.k /= "data"
                /\ ret[p].error = "Failed to refresh token"
                /\ StoredAfter(p).accessToken = StoredBefore(p).accessToken
                /\ StoredAfter(p).expiresAt = StoredBefore(p).expiresAt

\* A call made at the moment of expiry has refreshed: the store holds the
\* token it returned, which is not the one it found.
C26_Witness ==
  \E p \in DOMAIN pc :
    /\ pc[p] = "returned"
    /\ TokenCall(p).sent
    /\ TokenCall(p).at = TokenCall(p).entry.expiresAt
    /\ ret[p].v /= TokenCall(p).entry.accessToken
    /\ tokens[TokenCall(p).user].accessToken = ret[p].v

====
